---- MODULE Spec2Model ----
(***************************************************************************)
(* Task Timr: the task-duration consolidation and reconciliation engine   *)
(* (src/timr_utils.py, ProjectTimeConsolidator) together with the part of *)
(* the Timr client it relies on (src/timr_api.py).                        *)
(*                                                                         *)
(* Instants are integers counting clock ticks; Second ticks make a second. *)
(* Task ids and task names are strings in the program and are only ever   *)
(* compared; they are numbers here, ordered as the strings are, with the  *)
(* name 0 standing for the empty (or missing) name, the least string.     *)
(***************************************************************************)
EXTENDS Integers, Sequences, FiniteSets, TLC

\* ------------------------------------------------------------- bounds
Second == 100
NumTasks == 2
MaxDur == 2
MaxRemote == 2
MaxDesired == 2
MaxFaults == 1
MaxRuns == 3
MaxEntries == 3
MaxOther == 1
NumNames == 2

\* ------------------------------------------------------------- constants
Minute == 60 * Second
\* the comparison tolerance of _project_time_needs_update, in seconds
TOLERANCE_SECONDS == 1
Tolerance == TOLERANCE_SECONDS * Second

Tasks == 1..NumTasks
\* a project time whose "task" carries no id
NoTask == 0
Names == 0..NumNames

Min(a, b) == IF a <= b THEN a ELSE b
Abs(a) == IF a >= 0 THEN a ELSE 0 - a

\* ------------------------------------------------------------- planner
(* UIProjectTime: task_id, task_name, duration_minutes, deleted and the   *)
(* ids of the project times it aggregates                                 *)
UIProjectTime(t, n, d) ==
    [task_id |-> t, task_name |-> n, duration_minutes |-> d, deleted |-> FALSE,
     project_time_ids |-> <<>>]

mark_for_deletion(pt) == [pt EXCEPT !.deleted = TRUE]

\* KeyGE comparing the task ids only
KeyGE_id_only(a, b) == a.task_id >= b.task_id

\* the sort key (task_name or "", task_id) of a: a's key >= b's key
KeyGE(a, b) ==
    \/ a.task_name > b.task_name
    \/ a.task_name = b.task_name /\ a.task_id >= b.task_id

\* sorted(..., reverse=True) is stable: x goes behind every element whose
\* key is at least x's
RECURSIVE InsertDesc(_, _)
InsertDesc(s, x) ==
    IF s = <<>> THEN <<x>>
    ELSE IF KeyGE(Head(s), x) THEN <<Head(s)>> \o InsertDesc(Tail(s), x)
    ELSE <<x>> \o s

RECURSIVE SortDesc(_, _)
SortDesc(acc, rest) ==
    IF rest = <<>> THEN acc ELSE SortDesc(InsertDesc(acc, Head(rest)), Tail(rest))

Plannable(t) == ~t.deleted /\ t.duration_minutes > 0

\* sorted_tasks left in the order of the list
sorted_tasks_unsorted(tasks) == SelectSeq(tasks, Plannable)

sorted_tasks(tasks) == SortDesc(<<>>, SelectSeq(tasks, Plannable))

\* LayOut cutting a slot off at the end of the working time
RECURSIVE LayOut_truncating(_, _, _)
LayOut_truncating(sorted, current_time, work_end) ==
    IF sorted = <<>> THEN <<>>
    ELSE LET task == Head(sorted)
             max_start_time == work_end - Minute
             task_start == Min(current_time, max_start_time)
             task_end == Min(task_start + task.duration_minutes * Minute, work_end)
         IN  <<[task_id |-> task.task_id, start |-> task_start, end |-> task_end,
                duration_minutes |-> task.duration_minutes]>>
             \o LayOut_truncating(Tail(sorted), task_end, work_end)

\* LayOut starting every slot at the end of the one before
RECURSIVE LayOut_uncapped(_, _, _)
LayOut_uncapped(sorted, current_time, work_end) ==
    IF sorted = <<>> THEN <<>>
    ELSE LET task == Head(sorted)
             task_start == current_time
             task_end == task_start + task.duration_minutes * Minute
         IN  <<[task_id |-> task.task_id, start |-> task_start, end |-> task_end,
                duration_minutes |-> task.duration_minutes]>>
             \o LayOut_uncapped(Tail(sorted), task_end, work_end)

\* LayOut letting a slot start as late as the end of the working time
RECURSIVE LayOut_capped_at_end(_, _, _)
LayOut_capped_at_end(sorted, current_time, work_end) ==
    IF sorted = <<>> THEN <<>>
    ELSE LET task == Head(sorted)
             max_start_time == work_end
             task_start == Min(current_time, max_start_time)
             task_end == task_start + task.duration_minutes * Minute
         IN  <<[task_id |-> task.task_id, start |-> task_start, end |-> task_end,
                duration_minutes |-> task.duration_minutes]>>
             \o LayOut_capped_at_end(Tail(sorted), task_end, work_end)

RECURSIVE LayOut(_, _, _)
LayOut(sorted, current_time, work_end) ==
    IF sorted = <<>> THEN <<>>
    ELSE LET task == Head(sorted)
             max_start_time == work_end - Minute
             task_start == Min(current_time, max_start_time)
             task_end == task_start + task.duration_minutes * Minute
         IN  <<[task_id |-> task.task_id, start |-> task_start, end |-> task_end,
                duration_minutes |-> task.duration_minutes]>>
             \o LayOut(Tail(sorted), task_end, work_end)

calculate_time_slots(working_time, tasks) ==
    LayOut(sorted_tasks(tasks), working_time.start, working_time.end)

\* ------------------------------------------------------------- backend
(* A project time of the remote store: id, task (NoTask when the entry has *)
(* no task id), start, end.  The store is the sequence the backend lists   *)
(* them in; a created project time is listed last.                         *)
ProjectTime(i, t, s, e) == [id |-> i, task |-> t, start |-> s, end |-> e]

\* the overlap test of _get_project_times_in_work_time
InWorkTime(pt, w) ==
    \/ pt.start >= w.start /\ pt.start < w.end
    \/ pt.end > w.start /\ pt.end <= w.end
    \/ pt.start <= w.start /\ pt.end >= w.end

\* what a successful fetch returns for working time w
FetchOk(store, w) == SelectSeq(store, LAMBDA pt : InWorkTime(pt, w))

\* any error while fetching is caught and an empty list is returned
get_project_times_in_work_time(store, w, ok) ==
    IF ok THEN FetchOk(store, w) ELSE <<>>

\* a call of the client: op, id (update, delete), task (create), start, end
DeleteCall(i) == [op |-> "delete", id |-> i, task |-> NoTask, start |-> 0, end |-> 0]
UpdateCall(i, s, e) == [op |-> "update", id |-> i, task |-> NoTask, start |-> s, end |-> e]
CreateCall(t, s, e) == [op |-> "create", id |-> 0, task |-> t, start |-> s, end |-> e]

delete_project_time(store, c) == SelectSeq(store, LAMBDA pt : pt.id # c.id)

update_project_time(store, c) ==
    [k \in DOMAIN store |->
        IF store[k].id = c.id
        THEN [store[k] EXCEPT !.start = c.start, !.end = c.end]
        ELSE store[k]]

create_project_time(store, c, newId) ==
    Append(store, ProjectTime(newId, c.task, c.start, c.end))

\* the backend applying a call as issued
ApplyCall(store, c, newId) ==
    CASE c.op = "delete" -> delete_project_time(store, c)
      [] c.op = "update" -> update_project_time(store, c)
      [] c.op = "create" -> create_project_time(store, c, newId)

\* ------------------------------------------------------------- reconciler
\* project_time_needs_update asking for an update at a difference of 1 second
project_time_needs_update_inclusive(current_project_time, desired_slot) ==
    \/ Abs(current_project_time.start - desired_slot.start) >= Tolerance
    \/ Abs(current_project_time.end - desired_slot.end) >= Tolerance

\* project_time_needs_update comparing the starts only
project_time_needs_update_start_only(current_project_time, desired_slot) ==
    Abs(current_project_time.start - desired_slot.start) > Tolerance

\* more than 1 second apart at either boundary
project_time_needs_update(current_project_time, desired_slot) ==
    LET start_diff == Abs(current_project_time.start - desired_slot.start)
        end_diff == Abs(current_project_time.end - desired_slot.end)
    IN  start_diff > Tolerance \/ end_diff > Tolerance

\* the first project time of each task id, in fetch order; entries without a
\* task id are skipped
unique_project_times(cur) ==
    SelectSeq(cur, LAMBDA pt :
        /\ pt.task # NoTask
        /\ \A k \in DOMAIN cur :
               (cur[k].task = pt.task /\ cur[k].id # pt.id) =>
                   \E j \in DOMAIN cur : cur[j].id = pt.id /\ j < k)

\* duplicate_project_times collecting nothing
duplicate_project_times_none(cur) == SelectSeq(cur, LAMBDA pt : FALSE)

\* every later project time of a task id already seen
duplicate_project_times(cur) ==
    SelectSeq(cur, LAMBDA pt :
        /\ pt.task # NoTask
        /\ \E k \in DOMAIN cur :
               /\ cur[k].task = pt.task
               /\ \E j \in DOMAIN cur : cur[j].id = pt.id /\ k < j)

RangeOf(s) == {s[k] : k \in DOMAIN s}

CurrentTasks(cur) == {pt.task : pt \in RangeOf(unique_project_times(cur))}

\* current_by_task[t], for a task id t of the unique list
current_by_task(cur, t) ==
    LET uniq == unique_project_times(cur)
    IN  uniq[CHOOSE k \in DOMAIN uniq : uniq[k].task = t]

\* desired_by_task as the dict holds it: one entry per task id, in the order
\* the ids were first inserted, each with the slot inserted last
desired_by_task(slots) ==
    LET firsts == SelectSeq([k \in DOMAIN slots |-> k], LAMBDA k :
                      \A j \in 1..(k - 1) : slots[j].task_id # slots[k].task_id)
        LastOf(t) == CHOOSE k \in DOMAIN slots :
                        /\ slots[k].task_id = t
                        /\ \A j \in DOMAIN slots : slots[j].task_id = t => j <= k
    IN  [i \in DOMAIN firsts |-> slots[LastOf(slots[firsts[i]].task_id)]]

DesiredTasks(slots) == {slots[k].task_id : k \in DOMAIN slots}

\* the ids of the duplicates, deleted first, in fetch order
DuplicateDeletes(cur) ==
    LET dups == duplicate_project_times(cur)
    IN  [k \in DOMAIN dups |-> dups[k].id]

\* tasks_to_delete, as the ids of their current project times
tasks_to_delete(cur, slots) ==
    {current_by_task(cur, t).id : t \in CurrentTasks(cur) \ DesiredTasks(slots)}

\* UpsertOf never updating a project time that exists
UpsertOf_create_only(cur, slot) ==
    IF slot.task_id \in {cur[k].task : k \in DOMAIN cur}
    THEN <<>>
    ELSE <<CreateCall(slot.task_id, slot.start, slot.end)>>

\* the create or update call of one desired slot; <<>> when it needs none
UpsertOf(cur, slot) ==
    IF slot.task_id \in CurrentTasks(cur)
    THEN IF project_time_needs_update(current_by_task(cur, slot.task_id), slot)
         THEN <<UpdateCall(current_by_task(cur, slot.task_id).id, slot.start, slot.end)>>
         ELSE <<>>
    ELSE <<CreateCall(slot.task_id, slot.start, slot.end)>>

RECURSIVE Upserts(_, _)
Upserts(cur, dict) ==
    IF dict = <<>> THEN <<>>
    ELSE UpsertOf(cur, Head(dict)) \o Upserts(cur, Tail(dict))

\* ------------------------------------------------------------- state
VARIABLES
    remote,     \* the backend's project times, in the order it lists them
    nextId,     \* the id the backend gives the next created project time
    wt,         \* the working time (period) the operations are about
    desired,    \* desired_tasks of apply_differential_updates
    pc,         \* where the current operation is
    dupQ,       \* ids of duplicate_project_times still to delete
    delSet,     \* ids of tasks_to_delete still to delete
    upQ,        \* create and update calls still to issue, in planner order
    calls,      \* the mutating calls this run has issued, each with its outcome
    fetched,    \* TRUE when this run's fetch returned the backend's answer
    faults,     \* number of backend failures so far
    run,        \* number of runs of apply_differential_updates started
    hist,       \* the outcome of each finished run
    remote0,    \* the store before the first operation
    runStart,   \* the store when the current run started
    op,         \* the public operation in progress
    arg,        \* its arguments
    err,        \* the exception it raised, "none" if none
    slots,      \* the value _calculate_time_slots returned
    result,     \* the value the operation returned
    other,      \* number of calls other actors made on the store
    parent_task_cache,  \* _parent_task_cache of the client of the task search
    callers,    \* the get_tasks calls on that client, one per request thread
    client,     \* token and user of the client shared by the request handlers
    handlers,   \* the request handlers, one per request thread
    sent        \* the backend calls sent: issuing session, token and user used

store == <<remote, nextId>>
queues == <<dupQ, delSet, upQ>>
history == <<run, hist, remote0, runStart>>
request == <<op, arg>>
tasklist == <<parent_task_cache, callers>>
sessions == <<client, handlers, sent>>

vars == <<remote, nextId, wt, desired, pc, dupQ, delSet, upQ, calls, fetched,
          faults, run, hist, remote0, runStart, op, arg, err, slots, result, other,
          parent_task_cache, callers, client, handlers, sent>>

\* ------------------------------------------------------------- inputs
\* the start of every working time of the model
WorkStart == Minute

WorkingTimes ==
    {[start |-> WorkStart, end |-> WorkStart + n * Minute] : n \in 1..2}

\* where a project time of the initial store may lie: at the first planned
\* position, within and just outside the tolerance of it, at the second
\* position, across both with and without a second cut off at either end,
\* and across the start of the working time
Shapes ==
    { <<WorkStart, WorkStart + Minute>>,
      <<WorkStart + Second, WorkStart + Minute - Second>>,
      <<WorkStart, WorkStart + Minute + Second + 1>>,
      <<WorkStart + Minute, WorkStart + 2 * Minute>>,
      <<WorkStart, WorkStart + 2 * Minute>>,
      <<WorkStart + Second, WorkStart + 2 * Minute - Second>>,
      <<WorkStart - Minute \div 2, WorkStart + Minute \div 2>> }

\* a project time without a task id lies at the first planned position
SlotChoices ==
    (Tasks \X Shapes) \cup {<<NoTask, <<WorkStart, WorkStart + Minute>>>>}

\* the stores of n project times with the ids 1..n
StoresOf(n) ==
    {[k \in 1..n |-> ProjectTime(k, f[k][1], f[k][2][1], f[k][2][2])] :
        f \in [1..n -> SlotChoices]}

Stores == UNION {StoresOf(n) : n \in 0..MaxRemote}

\* the name the task catalogue gives a task: odd ids are named, even ids not
CatalogName(t) == t % 2

\* a desired entry: a task with a duration, the first task marked for
\* deletion, the last task with no duration
DesiredChoices ==
    {UIProjectTime(t, CatalogName(t), d) : t \in Tasks, d \in 1..MaxDur}
    \cup {mark_for_deletion(UIProjectTime(1, CatalogName(1), 1)),
          UIProjectTime(NumTasks, CatalogName(NumTasks), 0)}

\* a desired list holds one entry per task id, as the aggregation and the
\* user interface build it
DesiredLists ==
    {d \in UNION {[1..n -> DesiredChoices] : n \in 0..MaxDesired} :
        \A i, j \in DOMAIN d : d[i].task_id = d[j].task_id => i = j}

\* ------------------------------------------------------------- runs
NoArg == [task_id |-> NoTask, task_name |-> 0, duration_minutes |-> 0]

\* the request threads of the server
Threads == {1, 2}

\* a thread in which no get_tasks call was made yet
IdleCaller ==
    [pc |-> "idle", active_only |-> TRUE, tasks |-> <<>>, pos |-> 0, parent |-> 0,
     log |-> <<>>, n |-> 0]

\* a thread that handles no request; the client before the first request
\* has neither token nor user (None, here 0)
IdleHandler == [pc |-> "idle", session |-> 0, left |-> 0]
NoSession == [token |-> 0, user |-> 0]

Idle ==
    /\ parent_task_cache = {}
    /\ callers = [c \in Threads |-> IdleCaller]
    /\ client = NoSession
    /\ handlers = [r \in Threads |-> IdleHandler]
    /\ sent = {}
    /\ nextId = MaxRemote + 1
    /\ pc = "idle"
    /\ dupQ = <<>>
    /\ delSet = {}
    /\ upQ = <<>>
    /\ calls = <<>>
    /\ fetched = FALSE
    /\ faults = 0
    /\ run = 0
    /\ hist = <<>>
    /\ remote0 = remote
    /\ runStart = remote
    /\ op = "none"
    /\ arg = NoArg
    /\ err = "none"
    /\ slots = <<>>
    /\ result = <<>>
    /\ other = 0

Init ==
    /\ remote \in Stores
    /\ wt \in WorkingTimes
    /\ desired \in DesiredLists
    /\ Idle

Outcome == [fetched |-> fetched, raised |-> pc = "raised", calls |-> calls]

\* apply_differential_updates(wt, desired) is called
StartRun ==
    /\ pc \in {"idle", "done", "raised"}
    /\ run < MaxRuns
    /\ pc' = "fetch"
    /\ op' = "apply"
    /\ run' = run + 1
    /\ hist' = IF pc = "idle" THEN hist ELSE Append(hist, Outcome)
    /\ calls' = <<>>
    /\ runStart' = remote
    /\ fetched' = FALSE
    /\ err' = "none"
    /\ UNCHANGED <<tasklist, sessions, other, result, store, wt, desired, queues, faults, remote0, arg, slots>>

\* lines 385 to 457: the fetch from source_time, the de-duplication, the
\* planning in the working time, the maps
DiffFrom(source_time, ok) ==
    LET cur == get_project_times_in_work_time(remote, source_time, ok)
        desired_time_slots == calculate_time_slots(wt, desired)
        dict == desired_by_task(desired_time_slots)
        dq == DuplicateDeletes(cur)
        ds == tasks_to_delete(cur, desired_time_slots)
        uq == Upserts(cur, dict)
    IN  /\ fetched' = ok
        /\ dupQ' = dq
        /\ delSet' = ds
        /\ upQ' = uq
        /\ pc' = IF dq = <<>> /\ ds = {} /\ uq = <<>> THEN "done" ELSE "mutate"

\* source_time is the working time itself when no source_working_time is given
Diff(ok) == DiffFrom(wt, ok)

Fetch ==
    /\ pc = "fetch"
    /\ Diff(TRUE)
    /\ UNCHANGED <<tasklist, sessions, other, result, store, wt, desired, calls, faults, history, request, err, slots>>

\* the backend fails to answer the fetch
FetchFails ==
    /\ pc = "fetch"
    /\ faults < MaxFaults
    /\ faults' = faults + 1
    /\ Diff(FALSE)
    /\ UNCHANGED <<tasklist, sessions, other, result, store, wt, desired, calls, history, request, err, slots>>

\* NextCalls with the creates and updates ahead of the deletes
NextCalls_upserts_first ==
    IF upQ # <<>>
    THEN {[call |-> Head(upQ), dq |-> dupQ, ds |-> delSet, uq |-> Tail(upQ)]}
    ELSE IF dupQ # <<>>
    THEN {[call |-> DeleteCall(Head(dupQ)), dq |-> Tail(dupQ), ds |-> delSet, uq |-> upQ]}
    ELSE {[call |-> DeleteCall(i), dq |-> dupQ, ds |-> delSet \ {i}, uq |-> upQ] : i \in delSet}

\* the next call of the run and the queues without it: the duplicates first,
\* then tasks_to_delete in the order the set is iterated, then the upserts
NextCalls ==
    IF dupQ # <<>>
    THEN {[call |-> DeleteCall(Head(dupQ)), dq |-> Tail(dupQ), ds |-> delSet, uq |-> upQ]}
    ELSE IF delSet # {}
    THEN {[call |-> DeleteCall(i), dq |-> dupQ, ds |-> delSet \ {i}, uq |-> upQ] : i \in delSet}
    ELSE {[call |-> Head(upQ), dq |-> dupQ, ds |-> delSet, uq |-> Tail(upQ)]}

Issued(c, ok) == [call |-> c, ok |-> ok]

\* the backend applies the call; the run goes on
CallSucceeds ==
    /\ pc = "mutate"
    /\ \E n \in NextCalls :
          /\ remote' = ApplyCall(remote, n.call, nextId)
          /\ nextId' = IF n.call.op = "create" THEN nextId + 1 ELSE nextId
          /\ calls' = Append(calls, Issued(n.call, TRUE))
          /\ dupQ' = n.dq
          /\ delSet' = n.ds
          /\ upQ' = n.uq
          /\ pc' = IF n.dq = <<>> /\ n.ds = {} /\ n.uq = <<>> THEN "done" ELSE "mutate"
    /\ UNCHANGED <<tasklist, sessions, other, result, wt, desired, fetched, faults, history, request, err, slots>>

\* CallFails with the error caught and the run going on with its next call
CallFails_swallowed ==
    /\ pc = "mutate"
    /\ faults < MaxFaults
    /\ faults' = faults + 1
    /\ \E n \in NextCalls :
          /\ calls' = Append(calls, Issued(n.call, FALSE))
          /\ dupQ' = n.dq
          /\ delSet' = n.ds
          /\ upQ' = n.uq
          /\ pc' = IF n.dq = <<>> /\ n.ds = {} /\ n.uq = <<>> THEN "done" ELSE "mutate"
    /\ UNCHANGED <<tasklist, sessions, other, result, store, wt, desired, fetched, history, request, err, slots>>

\* the call raises TimrApiError, which nothing in the run catches
CallFails ==
    /\ pc = "mutate"
    /\ faults < MaxFaults
    /\ faults' = faults + 1
    /\ \E n \in NextCalls : calls' = Append(calls, Issued(n.call, FALSE))
    /\ pc' = "raised"
    /\ err' = "TimrApiError"
    /\ UNCHANGED <<tasklist, sessions, other, result, store, wt, desired, queues, fetched, history, request, slots>>

Next == StartRun \/ Fetch \/ FetchFails \/ CallSucceeds \/ CallFails

Spec == Init /\ [][Next]_vars

\* ------------------------------------------------------------- runs with another actor
(* Between the fetch of a run and its calls another actor (a second run   *)
(* for the same period, another client) creates a project time for a task *)
(* at the start of the working time.  The run holds the list it fetched   *)
(* (line 392) and reads the store no more.                                *)
OtherActor ==
    /\ pc = "mutate"
    /\ other < MaxOther
    /\ other' = other + 1
    /\ \E t \in Tasks :
          remote' = create_project_time(
                        remote, CreateCall(t, wt.start, wt.start + Minute), nextId)
    /\ nextId' = nextId + 1
    /\ UNCHANGED <<tasklist, sessions, result, wt, desired, pc, queues, calls, fetched,
                   faults, history, request, err, slots>>

NextInterleaved == Next \/ OtherActor

SpecInterleaved == Init /\ [][NextInterleaved]_vars

\* ------------------------------------------------------------- runs after a boundary change
\* the working time before and after an edit of its boundaries: two minutes,
\* the same moved by a minute, and its first minute
BoundaryWorkingTimes ==
    {[start |-> WorkStart, end |-> WorkStart + 2 * Minute],
     [start |-> WorkStart + Minute, end |-> WorkStart + 3 * Minute],
     [start |-> WorkStart, end |-> WorkStart + Minute]}

InitBoundary ==
    /\ remote \in Stores
    /\ wt \in BoundaryWorkingTimes
    /\ desired \in DesiredLists
    /\ Idle

\* apply_differential_updates(wt, desired, source_working_time) is called
\* with the working time as it was before the edit
StartBoundaryRun ==
    /\ pc = "idle"
    /\ pc' = "fetch_source"
    /\ op' = "boundary"
    /\ arg' \in BoundaryWorkingTimes \ {wt}
    /\ run' = run + 1
    /\ UNCHANGED <<tasklist, sessions, other, result, store, wt, desired, queues, calls, fetched, faults,
                   hist, remote0, runStart, err, slots>>

FetchSource ==
    /\ pc = "fetch_source"
    /\ DiffFrom(arg, TRUE)
    /\ UNCHANGED <<tasklist, sessions, other, result, store, wt, desired, calls, faults, history, request,
                   err, slots>>

\* the backend fails to answer the fetch
FetchSourceFails ==
    /\ pc = "fetch_source"
    /\ faults < MaxFaults
    /\ faults' = faults + 1
    /\ DiffFrom(arg, FALSE)
    /\ UNCHANGED <<tasklist, sessions, other, result, store, wt, desired, calls, history, request, err, slots>>

NextBoundary ==
    StartBoundaryRun \/ FetchSource \/ FetchSourceFails \/ CallSucceeds \/ CallFails

SpecBoundary == InitBoundary /\ [][NextBoundary]_vars

\* ------------------------------------------------------------- aggregation
(* An entry of the list the backend returns, as _consolidate_by_task sees  *)
(* it: kind "none" (None or {}), "other" (not a dict) or "dict"; the id,   *)
(* when has_id; task_kind "missing" (no task key), "null" (task is None)   *)
(* or "dict", with task NoTask for a task without an id; the minutes of    *)
(* the duration field, when has_duration; start and end, each "ok",        *)
(* "missing" or "bad" (a string fromisoformat rejects).                    *)
RawSlot(i, t, s, e) ==
    [kind |-> "dict", has_id |-> TRUE, id |-> i, task_kind |-> "dict", task |-> t,
     has_duration |-> FALSE, minutes |-> 0,
     start_kind |-> "ok", start |-> s, end_kind |-> "ok", end |-> e]

\* the entries of the store as the backend returns them
RawOf(pts) ==
    [k \in DOMAIN pts |-> RawSlot(pts[k].id, pts[k].task, pts[k].start, pts[k].end)]

\* lines 921 to 934: the entry is put into task_entries
Grouped(pt) == pt.kind = "dict" /\ pt.task_kind = "dict" /\ pt.task # NoTask

\* task = pt.get("task", {}) is None and task.get("id") raises AttributeError
null_task(project_times) ==
    \E k \in DOMAIN project_times :
        project_times[k].kind = "dict" /\ project_times[k].task_kind = "null"

\* lines 968 to 1008: the entry adds to the total of its task
Summed(pt) ==
    pt.has_duration \/ (pt.start_kind = "ok" /\ pt.end_kind = "ok")

\* entry_duration taking no notice of the duration field
entry_duration_times_only(pt) ==
    IF pt.end >= pt.start THEN (pt.end - pt.start) \div Minute
    ELSE 0 - ((pt.start - pt.end) \div Minute)

\* int((end - start).total_seconds() / 60): truncation towards zero
entry_duration(pt) ==
    IF pt.has_duration THEN pt.minutes
    ELSE IF pt.end >= pt.start THEN (pt.end - pt.start) \div Minute
    ELSE 0 - ((pt.start - pt.end) \div Minute)

\* the keys of task_entries in the order they were inserted
RECURSIVE task_entries(_, _)
task_entries(project_times, seen) ==
    IF project_times = <<>> THEN <<>>
    ELSE LET pt == Head(project_times)
         IN  IF ~Grouped(pt) \/ pt.task \in seen
             THEN task_entries(Tail(project_times), seen)
             ELSE <<pt.task>> \o task_entries(Tail(project_times), seen \cup {pt.task})

RECURSIVE total_duration(_, _)
total_duration(project_times, task_id) ==
    IF project_times = <<>> THEN 0
    ELSE LET pt == Head(project_times)
         IN  (IF Grouped(pt) /\ pt.task = task_id /\ Summed(pt)
              THEN entry_duration(pt) ELSE 0)
             + total_duration(Tail(project_times), task_id)

\* add_project_time: the ids of the entries that were summed and have one
project_time_ids(project_times, task_id) ==
    LET linked == SelectSeq(project_times, LAMBDA pt :
                      Grouped(pt) /\ pt.task = task_id /\ Summed(pt) /\ pt.has_id)
    IN  [k \in DOMAIN linked |-> linked[k].id]

\* one UIProjectTime per task id with a positive total
consolidate_by_task(project_times) ==
    LET ids == task_entries(project_times, {})
        all == [k \in DOMAIN ids |->
                   [UIProjectTime(ids[k], CatalogName(ids[k]),
                                  total_duration(project_times, ids[k]))
                       EXCEPT !.project_time_ids = project_time_ids(project_times, ids[k])]]
    IN  SelectSeq(all, LAMBDA u : u.duration_minutes > 0)

get_ui_project_times(st, w, ok) ==
    consolidate_by_task(RawOf(get_project_times_in_work_time(st, w, ok)))

\* ------------------------------------------------------------- operations
\* the requests of add_ui_project_time and update_ui_project_time
AddArgs ==
    {[task_id |-> t, task_name |-> n, duration_minutes |-> m] :
        t \in Tasks, n \in Names, m \in 1..MaxDur}

UpdateArgs ==
    {[task_id |-> t, task_name |-> n, duration_minutes |-> m] :
        t \in Tasks, n \in Names, m \in 0..MaxDur}

InitOps ==
    /\ remote \in Stores
    /\ wt \in WorkingTimes
    /\ desired = <<>>
    /\ Idle

StartOp(kind, a) ==
    /\ pc = "idle"
    /\ pc' = "read"
    /\ op' = kind
    /\ arg' = a
    /\ run' = run + 1
    /\ UNCHANGED <<tasklist, sessions, other, result, store, wt, desired, queues, calls, fetched, faults, hist,
                   remote0, runStart, err, slots>>

\* add_ui_project_time(wt, task_id, task_name, duration_minutes) is called
AddStart == \E a \in AddArgs : StartOp("add", a)

\* update_ui_project_time(wt, task_id, duration_minutes, task_name) is called
UpdateStart == \E a \in UpdateArgs : StartOp("update", a)

DeleteArgs ==
    {[task_id |-> t, task_name |-> 0, duration_minutes |-> 0] : t \in Tasks}

\* delete_ui_project_time(wt, task_id) is called
DeleteStart == \E a \in DeleteArgs : StartOp("delete", a)

\* next((pt for pt in ui_project_times if pt.task_id == task_id), None)
existing_task(ui_project_times, task_id) ==
    {k \in DOMAIN ui_project_times :
        /\ ui_project_times[k].task_id = task_id
        /\ \A j \in 1..(k - 1) : ui_project_times[j].task_id # task_id}

\* lines 191 to 230: the list add_ui_project_time hands to the reconciler
AddTo(ui_project_times, a) ==
    IF existing_task(ui_project_times, a.task_id) # {}
    THEN [k \in DOMAIN ui_project_times |->
            IF k \in existing_task(ui_project_times, a.task_id)
            THEN [ui_project_times[k] EXCEPT
                     !.duration_minutes = @ + a.duration_minutes,
                     !.task_name = a.task_name]
            ELSE ui_project_times[k]]
    ELSE Append(ui_project_times,
                UIProjectTime(a.task_id, a.task_name, a.duration_minutes))

\* lines 280 to 291: the list update_ui_project_time hands to the reconciler
UpdateIn(ui_project_times, a) ==
    [k \in DOMAIN ui_project_times |->
        IF k \in existing_task(ui_project_times, a.task_id)
        THEN [ui_project_times[k] EXCEPT
                 !.duration_minutes = a.duration_minutes,
                 !.task_name = IF a.task_name # 0 THEN a.task_name ELSE @]
        ELSE ui_project_times[k]]

\* lines 334 to 337: the list delete_ui_project_time hands to the reconciler
remaining_tasks(ui_project_times, task_id) ==
    SelectSeq(ui_project_times, LAMBDA pt : pt.task_id # task_id)

\* get_ui_project_times and what the operation makes of it
ReadAs(ok) ==
    LET ui_project_times == get_ui_project_times(remote, wt, ok)
        absent == existing_task(ui_project_times, arg.task_id) = {}
    IN  IF op = "update" /\ absent
        THEN /\ pc' = "raised"
             /\ err' = "ValueError"
             /\ desired' = ui_project_times
        ELSE IF op = "delete" /\ absent
        THEN /\ pc' = "done"
             /\ err' = err
             /\ desired' = ui_project_times
        ELSE /\ pc' = "fetch"
             /\ err' = err
             /\ desired' = CASE op = "add" -> AddTo(ui_project_times, arg)
                             [] op = "update" -> UpdateIn(ui_project_times, arg)
                             [] OTHER -> remaining_tasks(ui_project_times, arg.task_id)

Read ==
    /\ pc = "read"
    /\ ReadAs(TRUE)
    /\ UNCHANGED <<tasklist, sessions, other, result, store, wt, queues, calls, fetched, faults, history, request, slots>>

\* the backend fails to answer the fetch of get_ui_project_times
ReadFails ==
    /\ pc = "read"
    /\ faults < MaxFaults
    /\ faults' = faults + 1
    /\ ReadAs(FALSE)
    /\ UNCHANGED <<tasklist, sessions, other, result, store, wt, queues, calls, fetched, history, request, slots>>

NextOps ==
    \/ AddStart \/ UpdateStart \/ DeleteStart \/ Read \/ ReadFails
    \/ Fetch \/ FetchFails \/ CallSucceeds \/ CallFails

SpecOps == InitOps /\ [][NextOps]_vars

\* ------------------------------------------------------------- aggregation alone
\* entries of task t with well-formed times: a minute, a minute and a half,
\* 58 seconds, a minute and a half backwards
TimedEntries(t) ==
    {RawSlot(1, t, WorkStart, WorkStart + d) :
        d \in {Minute, Minute + Minute \div 2, Minute - 2 * Second}}
    \cup {RawSlot(1, t, WorkStart + Minute + Minute \div 2, WorkStart)}

\* entries of task t with a duration field (0 or 2 minutes over a slot of one
\* minute), without an id, and with a start or an end missing or unparsable
OddEntries(t) ==
    LET e == RawSlot(1, t, WorkStart, WorkStart + Minute)
    IN  {[e EXCEPT !.has_duration = TRUE, !.minutes = m] : m \in {0, 2}}
        \cup {[e EXCEPT !.has_id = FALSE],
              [e EXCEPT !.start_kind = "missing"],
              [e EXCEPT !.end_kind = "bad"]}

\* entries that are no record, or have no task, a null task or a task
\* without an id
TasklessEntries ==
    LET e == RawSlot(1, NoTask, WorkStart, WorkStart + Minute)
    IN  {[e EXCEPT !.kind = "none"], [e EXCEPT !.kind = "other"],
         [e EXCEPT !.task_kind = "missing"], [e EXCEPT !.task_kind = "null"], e}

RawChoices ==
    UNION {TimedEntries(t) \cup OddEntries(t) : t \in Tasks} \cup TasklessEntries

\* a list of up to MaxEntries entries, the entry at position k with the id k
InitAgg ==
    /\ \E n \in 0..MaxEntries : \E f \in [1..n -> RawChoices] :
          remote = [k \in 1..n |-> [f[k] EXCEPT !.id = k]]
    /\ wt = [start |-> WorkStart, end |-> WorkStart + 2 * Minute]
    /\ desired = <<>>
    /\ Idle

\* _consolidate_by_task(remote) is called and returns or raises
ConsolidateByTask ==
    /\ pc = "idle"
    /\ op' = "consolidate"
    /\ IF null_task(remote)
       THEN pc' = "raised" /\ err' = "AttributeError" /\ result' = result
       ELSE pc' = "returned" /\ err' = err /\ result' = consolidate_by_task(remote)
    /\ UNCHANGED <<tasklist, sessions, other, store, wt, desired, queues, calls, fetched, faults, history, arg, slots>>

NextAgg == ConsolidateByTask

SpecAgg == InitAgg /\ [][NextAgg]_vars

\* ------------------------------------------------------------- summary
(* consolidate_project_times.  Its working time has a start, an end unless *)
(* it is ongoing (end null), the minutes of its duration field when       *)
(* has_hint, and its break.  The break and the durations of the summary   *)
(* are counted in half minutes, so that the tolerance of 0.5 minute is a  *)
(* whole number: tolerance_halves of them.                                *)
tolerance_halves == 1

WorkingTime(s, e, ongoing, has_hint, hint, break) ==
    [start |-> s, end |-> e, ongoing |-> ongoing, has_hint |-> has_hint,
     hint_minutes |-> hint, break_halves |-> break]

\* _calculate_ongoing_working_time_end_for_api, and the end of a working time
\* that has one
fetch_work_end(w, now) ==
    IF ~w.ongoing THEN w.end
    ELSE IF w.has_hint THEN w.start + w.hint_minutes * Minute
    ELSE now

\* lines 814 to 826: work_end, the current time when the end is missing
consolidate_work_end(w, now) == IF w.ongoing THEN now ELSE w.end

is_over_allocated(net_duration, total_allocated) ==
    total_allocated > net_duration + tolerance_halves

\* is_fully_allocated without the tolerance
is_fully_allocated_exact(net_duration, total_allocated) ==
    net_duration = total_allocated

is_fully_allocated(net_duration, total_allocated) ==
    /\ Abs(net_duration - total_allocated) <= tolerance_halves
    /\ ~is_over_allocated(net_duration, total_allocated)

RECURSIVE sum_duration_minutes(_)
sum_duration_minutes(ui_project_times) ==
    IF ui_project_times = <<>> THEN 0
    ELSE Head(ui_project_times).duration_minutes
         + sum_duration_minutes(Tail(ui_project_times))

consolidate_project_times(st, w, now, ok) ==
    LET work_end == consolidate_work_end(w, now)
        work_duration == IF work_end >= w.start
                         THEN (work_end - w.start) \div Minute
                         ELSE 0 - ((w.start - work_end) \div Minute)
        net_duration == 2 * work_duration - w.break_halves
        original_project_times ==
            get_project_times_in_work_time(
                st, [start |-> w.start, end |-> fetch_work_end(w, now)], ok)
        ui_project_times == consolidate_by_task(RawOf(original_project_times))
        total_allocated == 2 * sum_duration_minutes(ui_project_times)
    IN  [ui_project_times |-> ui_project_times,
         total_duration |-> total_allocated,
         net_duration |-> net_duration,
         remaining_duration |-> net_duration - total_allocated,
         is_fully_allocated |-> is_fully_allocated(net_duration, total_allocated),
         is_over_allocated |-> is_over_allocated(net_duration, total_allocated),
         now |-> now]

\* breaks of 0, 1/2 and 1 minute
Breaks == 0..2

\* the working times of the summary: with an end, and ongoing with and
\* without the minutes of a duration
SummaryWorkingTimes ==
    {WorkingTime(WorkStart, WorkStart + n * Minute, FALSE, FALSE, 0, b) :
        n \in 1..2, b \in Breaks}
    \cup {WorkingTime(WorkStart, WorkStart, TRUE, h > 0, h, b) :
        h \in 0..2, b \in Breaks}

\* what the clock may show: one or three minutes after the start
Clock == {WorkStart + Minute, WorkStart + 3 * Minute}

InitSummary ==
    /\ remote \in Stores
    /\ wt \in SummaryWorkingTimes
    /\ desired = <<>>
    /\ Idle

\* consolidate_project_times(wt) is called and returns
Summarize ==
    /\ pc = "idle"
    /\ pc' = "returned"
    /\ op' = "summary"
    /\ \E now \in Clock : result' = consolidate_project_times(remote, wt, now, TRUE)
    /\ fetched' = TRUE
    /\ UNCHANGED <<tasklist, sessions, other, store, wt, desired, queues, calls, faults, history, arg, err, slots>>

\* the same with the backend failing to answer the fetch
SummarizeFetchFails ==
    /\ pc = "idle"
    /\ faults < MaxFaults
    /\ faults' = faults + 1
    /\ pc' = "returned"
    /\ op' = "summary"
    /\ \E now \in Clock : result' = consolidate_project_times(remote, wt, now, FALSE)
    /\ UNCHANGED <<tasklist, sessions, other, store, wt, desired, queues, calls, fetched, history, arg, err, slots>>

NextSummary == Summarize \/ SummarizeFetchFails

SpecSummary == InitSummary /\ [][NextSummary]_vars

\* ------------------------------------------------------------- planning alone
\* working times of two, one, half a and no minute
PlanWorkingTimes ==
    {[start |-> WorkStart, end |-> WorkStart + n * (Minute \div 2)] : n \in {0, 1, 2, 4}}

PlanChoices ==
    {UIProjectTime(t, n, d) : t \in Tasks, n \in Names, d \in 0..MaxDur}
    \cup {mark_for_deletion(UIProjectTime(t, n, 1)) : t \in Tasks, n \in Names}

PlanLists == UNION {[1..n -> PlanChoices] : n \in 0..MaxDesired}

InitPlan ==
    /\ remote = <<>>
    /\ wt \in PlanWorkingTimes
    /\ desired \in PlanLists
    /\ Idle

\* _calculate_time_slots(wt, desired) is called and returns
Plan ==
    /\ pc = "idle"
    /\ pc' = "planned"
    /\ op' = "plan"
    /\ slots' = calculate_time_slots(wt, desired)
    /\ UNCHANGED <<tasklist, sessions, other, result, store, wt, desired, queues, calls, fetched, faults, history, arg, err>>

NextPlan == Plan

SpecPlan == InitPlan /\ [][NextPlan]_vars


\* ------------------------------------------------------------- planning of a period
\* the working times a period may have: with an end, and ongoing (end null)
\* with and without the minutes of a duration
PeriodWorkingTimes == {w \in SummaryWorkingTimes : w.break_halves = 0}

\* lines 532 to 536: end_str is None for a working time whose end is null,
\* and end_str.endswith raises AttributeError
end_str_is_null(w) == w.ongoing

InitPeriod ==
    /\ remote = <<>>
    /\ wt \in PeriodWorkingTimes
    /\ desired \in PlanLists
    /\ Idle

\* _calculate_time_slots(wt, desired) is called and returns or raises
PlanPeriod ==
    /\ pc = "idle"
    /\ op' = "plan"
    /\ IF end_str_is_null(wt)
       THEN pc' = "raised" /\ err' = "AttributeError" /\ slots' = slots
       ELSE pc' = "planned" /\ err' = err /\ slots' = calculate_time_slots(wt, desired)
    /\ UNCHANGED <<tasklist, sessions, other, result, store, wt, desired, queues, calls, fetched, faults, history, arg>>

NextPeriod == PlanPeriod

SpecPeriod == InitPeriod /\ [][NextPeriod]_vars


\* ------------------------------------------------------------- sanitizing working times
(* A start or end of a working time is a string: a local time followed by *)
(* the offset of its zone.  Strings compare by the local time first and   *)
(* the offset after it; the instant a string stands for is its local time *)
(* less the offset.  Offsets are counted in steps of ZoneStep.            *)
ZoneStep == 2 * Minute

Stamp(l, z) == [local |-> l, zone |-> z]

\* datetime.fromisoformat of the string
Instant(s) == s.local - s.zone * ZoneStep

(* An entry of the list handed to sanitize_work_times: kind "dict",       *)
(* "none" (None) or "other" (a number); start and end each "ok",          *)
(* "missing", "null" or "bad" (a string fromisoformat rejects).           *)
WorkTimeEntry(i, s, e) ==
    [kind |-> "dict", id |-> i, start_kind |-> "ok", start |-> s,
     end_kind |-> "ok", end |-> e]

\* key a <= key b for wt.get("start", ""): the empty string is the least, a
\* string that is no time ("invalid") comes after every time
StartKeyLE(a, b) ==
    CASE a.start_kind = "missing" -> TRUE
      [] a.start_kind = "bad" -> b.start_kind = "bad"
      [] OTHER ->
           \/ b.start_kind = "bad"
           \/ /\ b.start_kind = "ok"
              /\ \/ a.start.local < b.start.local
                 \/ a.start.local = b.start.local /\ a.start.zone <= b.start.zone

\* sorted(...) is stable: x goes behind every element whose key is at most x's
RECURSIVE InsertAsc(_, _)
InsertAsc(s, x) ==
    IF s = <<>> THEN <<x>>
    ELSE IF StartKeyLE(Head(s), x) THEN <<Head(s)>> \o InsertAsc(Tail(s), x)
    ELSE <<x>> \o s

RECURSIVE SortAsc(_, _)
SortAsc(acc, rest) ==
    IF rest = <<>> THEN acc ELSE SortAsc(InsertAsc(acc, Head(rest)), Tail(rest))

sorted_work_times(work_times) == SortAsc(<<>>, work_times)

\* lines 655 to 673: both strings are there and parse, and curr starts
\* before prev ends
overlapping(prev_wt, curr_wt) ==
    /\ prev_wt.end_kind = "ok"
    /\ curr_wt.start_kind = "ok"
    /\ Instant(curr_wt.start) < Instant(prev_wt.end)

\* lines 648 to 690: the end of an entry that overlaps the next becomes the
\* start of the next
sanitized_work_times(sorted) ==
    [k \in DOMAIN sorted |->
        IF k < Len(sorted) /\ overlapping(sorted[k], sorted[k + 1])
        THEN [sorted[k] EXCEPT !.end = sorted[k + 1].start]
        ELSE sorted[k]]

\* the exception the sort raises: wt.get on an entry that is no dict, or the
\* comparison of a start that is None with another key
sort_error(work_times) ==
    IF \E k \in DOMAIN work_times : work_times[k].kind # "dict"
    THEN "AttributeError"
    ELSE IF /\ Len(work_times) >= 2
            /\ \E k \in DOMAIN work_times : work_times[k].start_kind = "null"
    THEN "TypeError"
    ELSE "none"

sanitize_work_times(work_times) ==
    IF work_times = <<>> THEN <<>>
    ELSE sanitized_work_times(sorted_work_times(work_times))

\* the bound of the lists of working times
MaxPeriods == 3

\* working times of one and two minutes starting at one of three local
\* times in one of two zones
TimedPeriods ==
    {WorkTimeEntry(1, Stamp(WorkStart + n * Minute, z),
                      Stamp(WorkStart + (n + d) * Minute, z)) :
        n \in 0..2, z \in 0..1, d \in 1..2}

\* entries with a start or an end that is missing, null or unreadable, and
\* entries that are no dict
OddPeriods ==
    LET w == WorkTimeEntry(1, Stamp(WorkStart + Minute, 0), Stamp(WorkStart + 2 * Minute, 0))
    IN  {[w EXCEPT !.end_kind = x] : x \in {"missing", "null", "bad"}}
        \cup {[w EXCEPT !.start_kind = x] : x \in {"missing", "null", "bad"}}
        \cup {[w EXCEPT !.kind = x] : x \in {"none", "other"}}

InitSanitize ==
    /\ remote = <<>>
    /\ wt = [start |-> WorkStart, end |-> WorkStart + 2 * Minute]
    /\ desired = <<>>
    /\ Idle

\* sanitize_work_times(work_times) is called with a list of up to MaxPeriods
\* entries, the entry at position k with the id k, and returns or raises
SanitizeWorkTimes ==
    /\ pc = "idle"
    /\ op' = "sanitize_work_times"
    /\ \E n \in 0..MaxPeriods : \E f \in [1..n -> TimedPeriods \cup OddPeriods] :
          LET work_times == [k \in 1..n |-> [f[k] EXCEPT !.id = k]]
          IN  /\ arg' = work_times
              /\ IF work_times # <<>> /\ sort_error(work_times) # "none"
                 THEN pc' = "raised" /\ err' = sort_error(work_times) /\ result' = result
                 ELSE pc' = "returned" /\ err' = err
                      /\ result' = sanitize_work_times(work_times)
    /\ UNCHANGED <<tasklist, sessions, other, store, wt, desired, queues, calls, fetched, faults, history, slots>>

NextSanitize == SanitizeWorkTimes

SpecSanitize == InitSanitize /\ [][NextSanitize]_vars


\* ------------------------------------------------------------- sanitizing project times
\* the minutes an inverted project time is given
FALLBACK_MINUTES == 15

Max(a, b) == IF a >= b THEN a ELSE b

\* lines 703 to 727: the working time has no end to read (it is ongoing) and
\* the method returns [] before it fetches
working_time_unusable(w) == w.ongoing

\* adjusted cutting the end off at the end of the working time
adjusted_truncating(pt, w) ==
    LET pt_start == Max(pt.start, w.start)
        pt_end == IF pt_start > pt.end THEN pt_start + FALLBACK_MINUTES * Minute
                  ELSE Min(pt.end, w.end)
    IN  [pt EXCEPT !.start = pt_start, !.end = pt_end]

\* lines 755 to 774: the start moved to the start of the working time, and
\* the end put 15 minutes behind a start that lies after it
adjusted(pt, w) ==
    LET pt_start == Max(pt.start, w.start)
        pt_end == IF pt_start > pt.end THEN pt_start + FALLBACK_MINUTES * Minute
                  ELSE pt.end
    IN  [pt EXCEPT !.start = pt_start, !.end = pt_end]

needs_adjustment(pt, w) ==
    pt.start < w.start \/ Max(pt.start, w.start) > pt.end

\* AdjustmentCalls with the loop left at the first call that raises
AdjustmentCalls_aborting(project_times, w, failing) ==
    LET out == SelectSeq(project_times, LAMBDA pt : needs_adjustment(pt, w))
        upto == IF \E k \in DOMAIN out : out[k].id \in failing
                THEN CHOOSE k \in DOMAIN out :
                        /\ out[k].id \in failing
                        /\ \A j \in 1..(k - 1) : out[j].id \notin failing
                ELSE Len(out)
    IN  [k \in 1..upto |->
            Issued(UpdateCall(out[k].id, adjusted(out[k], w).start,
                              adjusted(out[k], w).end),
                   out[k].id \notin failing)]

\* the update calls of the loop, in fetch order, each with its outcome: the
\* calls for the ids in failing raise TimrApiError, which the loop catches
AdjustmentCalls(project_times, w, failing) ==
    LET out == SelectSeq(project_times, LAMBDA pt : needs_adjustment(pt, w))
    IN  [k \in DOMAIN out |->
            Issued(UpdateCall(out[k].id, adjusted(out[k], w).start,
                              adjusted(out[k], w).end),
                   out[k].id \notin failing)]

\* adjusted_project_times: what update_project_time returned for the project
\* times adjusted, the others as fetched, none for a call that raised
adjusted_project_times(project_times, w, failing) ==
    LET kept == SelectSeq(project_times, LAMBDA pt :
                    ~(needs_adjustment(pt, w) /\ pt.id \in failing))
    IN  [k \in DOMAIN kept |-> adjusted(kept[k], w)]

\* the store after the calls of cs that did not fail
RECURSIVE Updated(_, _)
Updated(st, cs) ==
    IF cs = <<>> THEN st
    ELSE Updated(IF Head(cs).ok THEN update_project_time(st, Head(cs).call) ELSE st,
                 Tail(cs))

\* where a project time may lie: in the working time, across its start,
\* across start and end, across its end, and with its end before its start
SlotShapes ==
    { <<WorkStart, WorkStart + Minute>>,
      <<WorkStart - Minute \div 2, WorkStart + Minute \div 2>>,
      <<WorkStart - Minute \div 2, WorkStart + 3 * Minute>>,
      <<WorkStart, WorkStart + 3 * Minute>>,
      <<WorkStart + Minute \div 2, WorkStart>> }

InitSlots ==
    /\ \E n \in 0..MaxRemote : \E f \in [1..n -> Tasks \X SlotShapes] :
          remote = [k \in 1..n |-> ProjectTime(k, f[k][1], f[k][2][1], f[k][2][2])]
    /\ wt \in PeriodWorkingTimes
    /\ desired = <<>>
    /\ Idle

\* sanitize_project_times(wt) is called and returns; up to MaxFaults of its
\* update calls fail
SanitizeProjectTimes ==
    /\ pc = "idle"
    /\ pc' = "returned"
    /\ op' = "sanitize_project_times"
    /\ fetched' = ~working_time_unusable(wt)
    /\ LET project_times == IF working_time_unusable(wt) THEN <<>>
                            ELSE get_project_times_in_work_time(remote, wt, TRUE)
           adjustable == {project_times[k].id : k \in
                             {x \in DOMAIN project_times :
                                 needs_adjustment(project_times[x], wt)}}
       IN  \E failing \in SUBSET adjustable :
              /\ Cardinality(failing) <= MaxFaults
              /\ faults' = Cardinality(failing)
              /\ calls' = AdjustmentCalls(project_times, wt, failing)
              /\ result' = adjusted_project_times(project_times, wt, failing)
              /\ remote' = Updated(remote,
                                    AdjustmentCalls(project_times, wt, failing))
    /\ UNCHANGED <<tasklist, sessions, other, nextId, wt, desired, queues, history, arg, err, slots>>

\* the same with the backend failing to answer the fetch
SanitizeFetchFails ==
    /\ pc = "idle"
    /\ ~working_time_unusable(wt)
    /\ faults < MaxFaults
    /\ faults' = faults + 1
    /\ pc' = "returned"
    /\ op' = "sanitize_project_times"
    /\ result' = get_project_times_in_work_time(remote, wt, FALSE)
    /\ UNCHANGED <<tasklist, sessions, other, store, wt, desired, queues, calls, fetched, history, arg, err, slots>>

NextSlots == SanitizeProjectTimes \/ SanitizeFetchFails

SpecSlots == InitSlots /\ [][NextSlots]_vars


\* ------------------------------------------------------------- fetching the project times of a period
(* _get_project_times_in_work_time on what the backend lists for the dates *)
(* of the working time.  A listed project time has its start and its end  *)
(* each "ok", "missing", "null" or "bad" (a string fromisoformat rejects).*)
ListedProjectTime(i, t, s, e) ==
    [id |-> i, task |-> t, start_kind |-> "ok", start |-> s,
     end_kind |-> "ok", end |-> e]

\* lines 985 to 997: fromisoformat of both strings succeeds
parses(pt) == pt.start_kind = "ok" /\ pt.end_kind = "ok"

\* lines 958 to 999: work_end, then the project times that parse and pass
\* the overlap test, in the order listed
project_times_in_working_time(project_times, work_time_entry, now) ==
    LET w == [start |-> work_time_entry.start,
              end |-> fetch_work_end(work_time_entry, now)]
    IN  SelectSeq(project_times, LAMBDA pt : parses(pt) /\ InWorkTime(pt, w))

\* the instants a listed project time may start and end at
FetchGrid == {WorkStart + n * Minute : n \in -1..3}

\* every start and end of the grid, the end before the start included, and
\* project times with a start or an end that does not parse
ListedChoices ==
    {ListedProjectTime(1, 1, s, e) : s \in FetchGrid, e \in FetchGrid}
    \cup {[ListedProjectTime(1, 1, WorkStart, WorkStart + Minute)
              EXCEPT !.start_kind = x] : x \in {"missing", "null", "bad"}}
    \cup {[ListedProjectTime(1, 1, WorkStart, WorkStart + Minute)
              EXCEPT !.end_kind = x] : x \in {"missing", "null", "bad"}}

\* working times of no, one and two minutes, and ongoing ones with no
\* duration and with a duration of no, one and two minutes
FetchWorkingTimes ==
    {WorkingTime(WorkStart, WorkStart + n * Minute, FALSE, FALSE, 0, 0) : n \in 0..2}
    \cup {WorkingTime(WorkStart, WorkStart, TRUE, FALSE, 0, 0)}
    \cup {WorkingTime(WorkStart, WorkStart, TRUE, TRUE, h, 0) : h \in 0..2}

\* what the clock may show: the start of the working time, two minutes later
FetchClock == {WorkStart, WorkStart + 2 * Minute}

InitFetch ==
    /\ \E n \in 0..MaxRemote : \E f \in [1..n -> ListedChoices] :
          remote = [k \in 1..n |-> [f[k] EXCEPT !.id = k]]
    /\ wt \in FetchWorkingTimes
    /\ desired = <<>>
    /\ Idle

\* _get_project_times_in_work_time(wt) is called at the time now and returns
FetchInWorkTime ==
    /\ pc = "idle"
    /\ pc' = "returned"
    /\ op' = "fetch_in_work_time"
    /\ fetched' = TRUE
    /\ \E now \in FetchClock :
          /\ arg' = [now |-> now]
          /\ result' = project_times_in_working_time(remote, wt, now)
    /\ UNCHANGED <<tasklist, sessions, other, store, wt, desired, queues, calls, faults, history, err, slots>>

\* get_project_times raises; line 1000 catches it and [] is returned
FetchInWorkTimeFails ==
    /\ pc = "idle"
    /\ faults < MaxFaults
    /\ faults' = faults + 1
    /\ pc' = "returned"
    /\ op' = "fetch_in_work_time"
    /\ \E now \in FetchClock : arg' = [now |-> now]
    /\ result' = <<>>
    /\ UNCHANGED <<tasklist, sessions, other, store, wt, desired, queues, calls, fetched, history, err, slots>>

NextFetch == FetchInWorkTime \/ FetchInWorkTimeFails

SpecFetch == InitFetch /\ [][NextFetch]_vars


\* ------------------------------------------------------------- runs for a period that may have no end
(* apply_differential_updates for a working time that may be ongoing: the *)
(* fetch (line 392) takes the end of its window from the duration or the  *)
(* clock, the planning (line 420) reads the end itself and raises when it *)
(* is null, ahead of the first delete (line 433).                         *)
InitTarget ==
    /\ remote \in Stores
    /\ wt \in PeriodWorkingTimes
    /\ desired \in DesiredLists
    /\ Idle

\* the window the fetch filters by
FetchWindow(now) == [start |-> wt.start, end |-> fetch_work_end(wt, now)]

\* FetchAndPlan deleting the duplicates ahead of the planning
FetchAndPlan_duplicates_first ==
    /\ pc = "fetch"
    /\ IF end_str_is_null(wt)
       THEN /\ \E now \in Clock :
                  dupQ' = DuplicateDeletes(FetchOk(remote, FetchWindow(now)))
            /\ pc' = IF dupQ' = <<>> THEN "raised" ELSE "mutate"
            /\ err' = IF dupQ' = <<>> THEN "AttributeError" ELSE err
            /\ fetched' = TRUE
            /\ UNCHANGED <<delSet, upQ>>
       ELSE Diff(TRUE) /\ err' = err
    /\ UNCHANGED <<tasklist, sessions, other, result, store, wt, desired, calls, faults, history, request, slots>>

\* lines 392 to 420: the fetch, the de-duplication and the planning, which
\* raises for a working time without an end
FetchAndPlan ==
    /\ pc = "fetch"
    /\ IF end_str_is_null(wt)
       THEN /\ pc' = "raised"
            /\ err' = "AttributeError"
            /\ fetched' = TRUE
            /\ UNCHANGED queues
       ELSE Diff(TRUE) /\ err' = err
    /\ UNCHANGED <<tasklist, sessions, other, result, store, wt, desired, calls, faults, history, request, slots>>

\* the same with the backend failing to answer the fetch
FetchFailsAndPlan ==
    /\ pc = "fetch"
    /\ faults < MaxFaults
    /\ faults' = faults + 1
    /\ IF end_str_is_null(wt)
       THEN /\ pc' = "raised"
            /\ err' = "AttributeError"
            /\ fetched' = FALSE
            /\ UNCHANGED queues
       ELSE Diff(FALSE) /\ err' = err
    /\ UNCHANGED <<tasklist, sessions, other, result, store, wt, desired, calls, history, request, slots>>

NextTarget == StartRun \/ FetchAndPlan \/ FetchFailsAndPlan \/ CallSucceeds \/ CallFails

SpecTarget == InitTarget /\ [][NextTarget]_vars


\* ------------------------------------------------------------- the parent-task cache
(* get_tasks on the client of the task search (timr_api_elevated, one     *)
(* object for all requests, src/app.py:29-31 and 497).  A listed task is  *)
(* given by the id of its parent task, NoParent when it has none.  Every  *)
(* task is taken to be active: whether a task is kept in the list does    *)
(* not touch the cache.  A thread's log holds the lookups of its current  *)
(* call: the parent id and "hit", "fetched" or "failed".                  *)
MaxListed == 2

NoParent == 0
Parents == 1..2

\* the parent_task of a parent as the backend gives it: 2 lies under 1
ParentOf(p) == IF p = 2 THEN 1 ELSE NoParent

ListedTasks == UNION {[1..n -> {NoParent} \cup Parents] : n \in 1..MaxListed}

\* the first task behind position pos that has a parent to look up
NextWithParent(tasks, pos) ==
    IF \E k \in DOMAIN tasks : k > pos /\ tasks[k] # NoParent
    THEN CHOOSE k \in DOMAIN tasks :
            /\ k > pos /\ tasks[k] # NoParent
            /\ \A j \in DOMAIN tasks : (j > pos /\ tasks[j] # NoParent) => k <= j
    ELSE Len(tasks) + 1

\* the loop of get_tasks going on with the next task
AtNextTask(cl) ==
    LET k == NextWithParent(cl.tasks, cl.pos)
    IN  [cl EXCEPT !.pos = k,
                   !.parent = IF k <= Len(cl.tasks) THEN cl.tasks[k] ELSE NoParent]

Looked(p, outcome) == [parent |-> p, outcome |-> outcome]

InitTasks ==
    /\ remote = <<>>
    /\ wt = [start |-> WorkStart, end |-> WorkStart + 2 * Minute]
    /\ desired = <<>>
    /\ Idle

\* what the task search leaves alone
TasksFrame ==
    UNCHANGED <<sessions, other, result, store, wt, desired, pc, queues, calls,
                fetched, history, request, err, slots>>

\* get_tasks(active_only) is called in thread c
GetTasks ==
    /\ \E c \in Threads :
        /\ callers[c].pc \in {"idle", "returned", "raised"}
        /\ callers[c].n < MaxRuns
        /\ \E a \in BOOLEAN :
              callers' = [callers EXCEPT ![c] =
                  [IdleCaller EXCEPT !.pc = "listing", !.active_only = a,
                                     !.n = callers[c].n + 1]]
        /\ UNCHANGED <<parent_task_cache, faults>>
    /\ TasksFrame

\* line 651: _request_paginated raises
ListFails ==
    /\ \E c \in Threads :
        /\ callers[c].pc = "listing"
        /\ faults < MaxFaults
        /\ faults' = faults + 1
        /\ callers' = [callers EXCEPT ![c].pc = "raised"]
        /\ UNCHANGED parent_task_cache
    /\ TasksFrame

\* lines 651 to 656: the list is there; with active_only the cache is
\* cleared and the filtering begins, without it the list is returned
ListReturns ==
    /\ \E c \in Threads :
        /\ callers[c].pc = "listing"
        /\ \E ts \in ListedTasks :
              IF callers[c].active_only
              THEN /\ parent_task_cache' = {}
                   /\ callers' = [callers EXCEPT ![c] =
                         AtNextTask([callers[c] EXCEPT !.pc = "filter", !.tasks = ts,
                                                       !.pos = 0])]
              ELSE /\ parent_task_cache' = parent_task_cache
                   /\ callers' = [callers EXCEPT ![c].pc = "returned", ![c].tasks = ts]
        /\ UNCHANGED faults
    /\ TasksFrame

\* lines 714 to 726 and _get_task_by_id: the parent is taken from the cache,
\* or fetched and put into it; the parent's own parent is looked up next
Lookup ==
    /\ \E c \in Threads :
        /\ callers[c].pc = "filter"
        /\ callers[c].parent # NoParent
        /\ LET p == callers[c].parent
               hit == p \in parent_task_cache
               logged == [callers[c] EXCEPT !.log =
                             Append(@, Looked(p, IF hit THEN "hit" ELSE "fetched"))]
           IN  /\ parent_task_cache' = parent_task_cache \cup {p}
               /\ callers' = [callers EXCEPT ![c] =
                     IF ParentOf(p) # NoParent
                     THEN [logged EXCEPT !.parent = ParentOf(p)]
                     ELSE AtNextTask(logged)]
        /\ UNCHANGED faults
    /\ TasksFrame

\* the fetch of a parent that is not cached raises TimrApiError: nothing is
\* cached, the task counts as bookable and the loop goes on with the next
LookupFails ==
    /\ \E c \in Threads :
        /\ callers[c].pc = "filter"
        /\ callers[c].parent # NoParent
        /\ callers[c].parent \notin parent_task_cache
        /\ faults < MaxFaults
        /\ faults' = faults + 1
        /\ callers' = [callers EXCEPT ![c] =
              AtNextTask([callers[c] EXCEPT !.log =
                             Append(@, Looked(callers[c].parent, "failed"))])]
        /\ UNCHANGED parent_task_cache
    /\ TasksFrame

\* lines 663 to 665: every task was examined, the cache is cleared
Finish ==
    /\ \E c \in Threads :
        /\ callers[c].pc = "filter"
        /\ callers[c].pos > Len(callers[c].tasks)
        /\ parent_task_cache' = {}
        /\ callers' = [callers EXCEPT ![c].pc = "returned"]
        /\ UNCHANGED faults
    /\ TasksFrame

NextTasks ==
    GetTasks \/ ListFails \/ ListReturns \/ Lookup \/ LookupFails \/ Finish

SpecTasks == InitTasks /\ [][NextTasks]_vars


\* ------------------------------------------------------------- requests on the shared client
(* The request handlers of src/app.py work on one TimrApi object, timr_api *)
(* (line 30).  A handler writes the token and the user of its session     *)
(* into it (lines 700 and 701), then makes its backend calls; _request    *)
(* reads the token (src/timr_api.py:105-106) and get_project_times the    *)
(* user (lines 795-798) when the call is made.  Each request runs in a    *)
(* thread of its own, so the steps of two requests interleave.            *)
MaxCalls == 2

\* the users logged in; the token of u's session is TokenOf(u)
Users == {1, 2}
TokenOf(u) == 10 + u

SentCall(r) ==
    [session |-> handlers[r].session, token |-> client.token, user |-> client.user]

InitRequests ==
    /\ remote = <<>>
    /\ wt = [start |-> WorkStart, end |-> WorkStart + 2 * Minute]
    /\ desired = <<>>
    /\ Idle

\* what the request handlers leave alone
RequestsFrame ==
    UNCHANGED <<tasklist, other, result, store, wt, desired, pc, queues, calls,
                fetched, faults, history, request, err, slots>>

\* a request of the session of user u arrives and a thread takes it
ReceiveRequest ==
    /\ \E r \in Threads, u \in Users :
          /\ handlers[r].pc = "idle"
          /\ handlers' = [handlers EXCEPT ![r] =
                [pc |-> "assign_token", session |-> u, left |-> 0]]
    /\ UNCHANGED <<client, sent>>
    /\ RequestsFrame

\* line 700: timr_api.token = session.get('token')
AssignToken ==
    /\ \E r \in Threads :
          /\ handlers[r].pc = "assign_token"
          /\ client' = [client EXCEPT !.token = TokenOf(handlers[r].session)]
          /\ handlers' = [handlers EXCEPT ![r].pc = "assign_user"]
    /\ UNCHANGED sent
    /\ RequestsFrame

\* line 701: timr_api.user = user; the handler has 1 to MaxCalls backend
\* calls to make
AssignUser ==
    /\ \E r \in Threads, n \in 1..MaxCalls :
          /\ handlers[r].pc = "assign_user"
          /\ client' = [client EXCEPT !.user = handlers[r].session]
          /\ handlers' = [handlers EXCEPT ![r].pc = "calling", ![r].left = n]
    /\ UNCHANGED sent
    /\ RequestsFrame

\* a backend call of the handler: the token and the user are those the
\* client holds now; after the last call the response is sent
BackendCall ==
    /\ \E r \in Threads :
          /\ handlers[r].pc = "calling"
          /\ sent' = sent \cup {SentCall(r)}
          /\ handlers' = [handlers EXCEPT
                ![r].left = @ - 1,
                ![r].pc = IF handlers[r].left = 1 THEN "idle" ELSE "calling"]
    /\ UNCHANGED client
    /\ RequestsFrame

NextRequests == ReceiveRequest \/ AssignToken \/ AssignUser \/ BackendCall

SpecRequests == InitRequests /\ [][NextRequests]_vars

\* ------------------------------------------------------------- vocabulary of the properties
\* the period's project times as the backend holds them now
PeriodSlots == FetchOk(remote, wt)

\* the layout planned for the desired list
Planned == calculate_time_slots(wt, desired)

OfTask(ps, t) == {k \in DOMAIN ps : ps[k].task = t}

Within(pt, slot) ==
    /\ Abs(pt.start - slot.start) <= Tolerance
    /\ Abs(pt.end - slot.end) <= Tolerance

\* a run of apply_differential_updates has returned and no call of it,
\* the fetch included, failed
Completed == op = "apply" /\ pc = "done" /\ fetched

OkCalls == SelectSeq(calls, LAMBDA c : c.ok)

CallsOf(kind) == {k \in DOMAIN calls : calls[k].call.op = kind}

RECURSIVE ApplyAll(_, _, _)
ApplyAll(st, cs, newId) ==
    IF cs = <<>> THEN st
    ELSE ApplyAll(ApplyCall(st, Head(cs), newId), Tail(cs),
                  IF Head(cs).op = "create" THEN newId + 1 ELSE newId)

RECURSIVE SetToSeq(_)
SetToSeq(S) ==
    IF S = {} THEN <<>>
    ELSE LET m == CHOOSE x \in S : \A y \in S : x <= y
         IN  <<m>> \o SetToSeq(S \ {m})

\* the store an uninterrupted run over st leaves, every call applied
RunToEnd(st, w, d) ==
    LET cur == FetchOk(st, w)
        planned == calculate_time_slots(w, d)
        dq == DuplicateDeletes(cur)
        ds == SetToSeq(tasks_to_delete(cur, planned))
    IN  ApplyAll(st,
                 [k \in DOMAIN dq |-> DeleteCall(dq[k])]
                     \o [k \in DOMAIN ds |-> DeleteCall(ds[k])]
                     \o Upserts(cur, desired_by_task(planned)),
                 MaxRemote + 1)

\* a store without the ids the backend gave
Content(st) == [k \in DOMAIN st |-> [task |-> st[k].task, start |-> st[k].start, end |-> st[k].end]]

C2_SecondRunIssuesNothing ==
    (op = "apply" /\ run >= 2 /\ ~hist[run - 1].raised) => calls = <<>>

\* ------------------------------------------------------------- C3
\* C3 as stated: after a run that returned without raising, the period holds
\* at most one project time for each task id of the desired list.
C3_AtMostOnePerDesiredTask ==
    (op = "apply" /\ pc = "done") =>
        \A t \in DesiredTasks(Planned) :
            Cardinality(OfTask(PeriodSlots, t)) <= 1

\* ------------------------------------------------------------- C5
\* C5 as stated: when the fetch of a run fails, the run raises and has issued
\* no create, update or delete call.
C5_FetchErrorAborts ==
    (op = "apply" /\ pc \in {"mutate", "done", "raised"} /\ ~fetched) =>
        (pc = "raised" /\ calls = <<>>)

\* ------------------------------------------------------------- C6
\* C6: a failed create, update or delete call is the last call of its run and
\* leaves the run raised; the store is then the store of the run's start with
\* exactly the calls that succeeded before it applied, none undone.
C6_FailureHaltsRun ==
    /\ \A k \in DOMAIN calls :
          ~calls[k].ok => (k = Len(calls) /\ pc = "raised" /\ err = "TimrApiError")
    /\ pc = "raised" =>
          /\ calls # <<>>
          /\ ~calls[Len(calls)].ok
          /\ remote = ApplyAll(runStart,
                               [k \in DOMAIN OkCalls |-> OkCalls[k].call],
                               nextId - Cardinality({k \in DOMAIN OkCalls :
                                                        OkCalls[k].call.op = "create"}))

\* a run that raised at its second call, the first applied, with another
\* call still to issue behind the failed one
C6_Witness ==
    /\ op = "apply"
    /\ pc = "raised"
    /\ Len(calls) = 2
    /\ remote # runStart
    /\ Len(upQ) >= 2

\* ------------------------------------------------------------- C7
\* the first run raised at one of its calls, the second ran with the backend
\* answering every call and has returned
Recovered ==
    /\ op = "apply" /\ run = 2 /\ pc = "done" /\ fetched
    /\ hist[1].raised /\ hist[1].fetched

\* the run after a recovery, its fetch answered
AfterRecovery ==
    /\ op = "apply" /\ run = 3 /\ pc # "fetch" /\ fetched
    /\ hist[1].raised /\ hist[1].fetched
    /\ hist[2].fetched /\ ~hist[2].raised

\* C7 as stated: the re-run after a run that failed part-way ends in the
\* store an uninterrupted run ends in, with one project time per planned task
\* at its planned position and none for other tasks, and the run after it
\* issues no call.
C7_RerunConvergesExactly ==
    /\ Recovered =>
          /\ Content(remote) = Content(RunToEnd(remote0, wt, desired))
          /\ \A i \in DOMAIN Planned :
                /\ Cardinality(OfTask(PeriodSlots, Planned[i].task_id)) = 1
                /\ \A k \in OfTask(PeriodSlots, Planned[i].task_id) :
                      /\ PeriodSlots[k].start = Planned[i].start
                      /\ PeriodSlots[k].end = Planned[i].end
          /\ \A k \in DOMAIN PeriodSlots :
                PeriodSlots[k].task # NoTask =>
                    PeriodSlots[k].task \in DesiredTasks(Planned)
    /\ AfterRecovery => calls = <<>>

\* C7 amended: the re-run ends in the store an uninterrupted run ends in, with
\* one project time per planned task within one second of its planned start
\* and end and none for other tasks, and the run after it issues no call.
C7_RerunConverges ==
    /\ Recovered =>
          /\ Content(remote) = Content(RunToEnd(remote0, wt, desired))
          /\ \A i \in DOMAIN Planned :
                /\ Cardinality(OfTask(PeriodSlots, Planned[i].task_id)) = 1
                /\ \A k \in OfTask(PeriodSlots, Planned[i].task_id) :
                      Within(PeriodSlots[k], Planned[i])
          /\ \A k \in DOMAIN PeriodSlots :
                PeriodSlots[k].task # NoTask =>
                    PeriodSlots[k].task \in DesiredTasks(Planned)
    /\ AfterRecovery => calls = <<>>

\* a third run after a first run that applied a call and then raised and a
\* second run that issued the rest
C7_Witness ==
    /\ AfterRecovery
    /\ pc = "done"
    /\ Len(hist[1].calls) >= 2
    /\ hist[2].calls # <<>>

\* ------------------------------------------------------------- C8
\* the project times the run fetched
FetchedByRun == FetchOk(runStart, wt)

Later(cur, j) == \E i \in 1..(j - 1) : cur[i].task = cur[j].task

Earlier(cur, i) == \E j \in (i + 1)..Len(cur) : cur[j].task = cur[i].task

DeletesOf(id) == {k \in DOMAIN calls : calls[k].call.op = "delete" /\ calls[k].call.id = id}

\* the duration, in minutes, the desired list gives task t
DesiredMinutes(t) ==
    LET i == CHOOSE k \in DOMAIN Planned : Planned[k].task_id = t
    IN  Planned[i].duration_minutes

PlannedFor(t) == Planned[CHOOSE k \in DOMAIN Planned : Planned[k].task_id = t]

\* the first fetched project time of each task that was fetched several times
\* is kept when the task is planned, each later one is deleted once
DuplicatesDeleted ==
    \A j \in DOMAIN FetchedByRun :
        LET pt == FetchedByRun[j]
        IN  pt.task # NoTask =>
              /\ Later(FetchedByRun, j) => Cardinality(DeletesOf(pt.id)) = 1
              /\ (~Later(FetchedByRun, j) /\ Earlier(FetchedByRun, j)) =>
                    (DeletesOf(pt.id) = {} <=> pt.task \in DesiredTasks(Planned))

\* C8 as stated: of several fetched project times of one task the first is
\* kept and every later one deleted; the kept one ends with exactly the
\* desired duration.
C8_KeepsFirstWithExactDuration ==
    Completed =>
        /\ DuplicatesDeleted
        /\ \A j \in DOMAIN FetchedByRun :
              LET pt == FetchedByRun[j]
              IN  (/\ pt.task \in DesiredTasks(Planned)
                   /\ ~Later(FetchedByRun, j) /\ Earlier(FetchedByRun, j)) =>
                      \E k \in DOMAIN remote :
                          /\ remote[k].id = pt.id
                          /\ remote[k].end - remote[k].start
                                 = DesiredMinutes(pt.task) * Minute

\* C8 amended: of several fetched project times of one task the first is kept
\* and every later one deleted; the kept one ends within one second, at its
\* start and at its end, of the slot planned for the desired duration.
C8_KeepsFirstWithinTolerance ==
    Completed =>
        /\ DuplicatesDeleted
        /\ \A j \in DOMAIN FetchedByRun :
              LET pt == FetchedByRun[j]
              IN  (/\ pt.task \in DesiredTasks(Planned)
                   /\ ~Later(FetchedByRun, j) /\ Earlier(FetchedByRun, j)) =>
                      \E k \in DOMAIN remote :
                          /\ remote[k].id = pt.id
                          /\ Within(remote[k], PlannedFor(pt.task))

\* a run over two project times of one planned task, of other durations than
\* the desired one, that deleted the second and updated the first
C8_Witness ==
    /\ Completed
    /\ Len(FetchedByRun) = 2
    /\ FetchedByRun[1].task = FetchedByRun[2].task
    /\ FetchedByRun[1].task \in DesiredTasks(Planned)
    /\ DeletesOf(FetchedByRun[2].id) # {}
    /\ CallsOf("update") # {}

\* ------------------------------------------------------------- C4
\* C4: the slots _calculate_time_slots returns are, one for one, the tasks of
\* the list that are not deleted and have a positive duration, and each slot's
\* end - start is exactly its task's duration_minutes, whatever the window.
C4_DurationConserved ==
    pc = "planned" =>
        LET P == {k \in DOMAIN desired : Plannable(desired[k])}
        IN  \E f \in [DOMAIN slots -> P] :
                /\ \A k \in P : \E i \in DOMAIN slots : f[i] = k
                /\ \A i, j \in DOMAIN slots : f[i] = f[j] => i = j
                /\ \A i \in DOMAIN slots :
                      /\ slots[i].task_id = desired[f[i]].task_id
                      /\ slots[i].duration_minutes = desired[f[i]].duration_minutes
                      /\ slots[i].end - slots[i].start
                             = desired[f[i]].duration_minutes * Minute

\* a layout of two slots in a window shorter than their total, the last slot
\* ending after the window
C4_Witness ==
    /\ pc = "planned"
    /\ Len(slots) = 2
    /\ wt.end - wt.start < (slots[1].duration_minutes + slots[2].duration_minutes) * Minute
    /\ slots[2].end > wt.end

\* ------------------------------------------------------------- C9, C10
\* the aggregated duration of task t in the period, as a fetch that succeeds
\* shows it
Aggregated(st, t) == total_duration(RawOf(FetchOk(st, wt)), t)

OthersKeep(t) ==
    \A u \in Tasks \ {t} : Aggregated(remote, u) = Aggregated(runStart, u)

\* C9: when add_ui_project_time(period, T, name, m) has returned, T's
\* aggregated duration is what it was before plus m (m when T was absent) and
\* every other task of the period has the aggregated duration it had,
\* whatever the remote state was and however the operation's fetches went.
C9_AddIsAdditive ==
    (op = "add" /\ pc = "done") =>
        /\ Aggregated(remote, arg.task_id)
               = Aggregated(runStart, arg.task_id) + arg.duration_minutes
        /\ OthersKeep(arg.task_id)

\* C10: when update_ui_project_time(period, T, m) has returned for a task T
\* that was present and m > 0, T's aggregated duration is exactly m and the
\* others' are unchanged; when T had no aggregated entry the operation raises
\* ValueError and has issued no create, update or delete call.
C10_UpdateReplaces ==
    (op = "update" /\ pc \in {"done", "raised"}) =>
        IF Aggregated(runStart, arg.task_id) > 0
        THEN /\ err # "ValueError"
             /\ (pc = "done" /\ arg.duration_minutes > 0) =>
                   /\ Aggregated(remote, arg.task_id) = arg.duration_minutes
                   /\ OthersKeep(arg.task_id)
        ELSE /\ pc = "raised"
             /\ err = "ValueError"
             /\ calls = <<>>

\* ------------------------------------------------------------- C11
\* C11: when delete_ui_project_time(period, T) has returned for a task T that
\* had an aggregated entry, no project time of T is left in the period and
\* every other task has the aggregated duration it had; when T had none, no
\* create, update or delete call was issued.
C11_DeleteRemovesTask ==
    (op = "delete" /\ pc = "done") =>
        IF Aggregated(runStart, arg.task_id) > 0
        THEN /\ OfTask(PeriodSlots, arg.task_id) = {}
             /\ OthersKeep(arg.task_id)
        ELSE calls = <<>> /\ remote = runStart

\* ------------------------------------------------------------- C12
\* the orderings of a list of n entries
Orderings(n) == {p \in [1..n -> 1..n] : \A i, j \in 1..n : p[i] = p[j] => i = j}

Reordered(tasks, p) == [k \in DOMAIN tasks |-> tasks[p[k]]]

\* C12 as stated: every ordering of the task list yields the slot sequence
\* the list itself yields: the same tasks in the same order with the same
\* starts and ends.
C12_OrderIndependent ==
    pc = "planned" =>
        \A p \in Orderings(Len(desired)) :
            calculate_time_slots(wt, Reordered(desired, p)) = slots

\* no two entries that are planned have both the task name and the task id
\* in common
DistinctKeys(tasks) ==
    \A i, j \in DOMAIN tasks :
        (/\ i # j /\ Plannable(tasks[i]) /\ Plannable(tasks[j])
         /\ tasks[i].task_id = tasks[j].task_id)
            => tasks[i].task_name # tasks[j].task_name

\* C12 amended: when no two planned entries of the list share task name and
\* task id, every ordering of the list yields the identical slot sequence.
C12_OrderIndependentForDistinctKeys ==
    (pc = "planned" /\ DistinctKeys(desired)) =>
        \A p \in Orderings(Len(desired)) :
            calculate_time_slots(wt, Reordered(desired, p)) = slots

\* two planned entries given in the order opposite to the one they are laid
\* out in
C12_Witness ==
    /\ pc = "planned"
    /\ DistinctKeys(desired)
    /\ Len(desired) = 2 /\ Len(slots) = 2
    /\ slots[1].task_id = desired[2].task_id
    /\ slots[1].task_id # slots[2].task_id

cursor(i) == IF i = 1 THEN wt.start ELSE slots[i - 1].end

OrderedBy(ord(_, _)) ==
    LET P == {k \in DOMAIN desired : Plannable(desired[k])}
    IN  \E f \in [DOMAIN slots -> P] :
            /\ \A i, j \in DOMAIN slots : f[i] = f[j] => i = j
            /\ \A i \in DOMAIN slots :
                  /\ slots[i].task_id = desired[f[i]].task_id
                  /\ slots[i].duration_minutes = desired[f[i]].duration_minutes
            /\ \A i, j \in DOMAIN slots : i < j => ord(desired[f[i]], desired[f[j]])

\* a comes no later than b: a greater name first, the greater task id first
\* among equal names, and no entry without a name ahead of a named one
NameThenIdDescending(a, b) ==
    /\ a.task_name >= b.task_name
    /\ a.task_name = b.task_name => a.task_id >= b.task_id
    /\ a.task_name = 0 => b.task_name = 0

UpdatesOf(id) == {k \in DOMAIN calls : calls[k].call.op = "update" /\ calls[k].call.id = id}

\* start or end of pt is more than one second away from the slot's
MoreThanASecondOff(pt, slot) ==
    \/ pt.start - slot.start > Second \/ slot.start - pt.start > Second
    \/ pt.end - slot.end > Second \/ slot.end - pt.end > Second

\* the fetched project times the run kept as current for a planned task
KeptAndPlanned ==
    {j \in DOMAIN FetchedByRun :
        /\ FetchedByRun[j].task \in DesiredTasks(Planned)
        /\ ~Later(FetchedByRun, j)}

\* C16: _project_time_needs_update is false when start and end are each at
\* most 1 second off (1.0 s included) and true when either is more than 1
\* second off (1.01 s); a completed run has issued an update for an existing
\* task exactly in the second case.
C16_ToleranceBoundary ==
    Completed =>
        \A j \in KeptAndPlanned :
            LET pt == FetchedByRun[j]
                slot == PlannedFor(pt.task)
            IN  /\ project_time_needs_update(pt, slot) <=> MoreThanASecondOff(pt, slot)
                /\ UpdatesOf(pt.id) # {} <=> MoreThanASecondOff(pt, slot)

\* a run that left a project time exactly 1 second off its slot alone and
\* updated one whose end was one tick more than a second (1.01 seconds) off
C16_Witness ==
    /\ Completed
    /\ \E j \in KeptAndPlanned :
          LET pt == FetchedByRun[j]
              slot == PlannedFor(pt.task)
          IN  /\ pt.start - slot.start = Second /\ slot.end - pt.end = Second
              /\ UpdatesOf(pt.id) = {}
    /\ \E j \in KeptAndPlanned :
          LET pt == FetchedByRun[j]
              slot == PlannedFor(pt.task)
          IN  /\ pt.start = slot.start /\ pt.end - slot.end = Second + 1
              /\ UpdatesOf(pt.id) # {}

\* ------------------------------------------------------------- C17
\* the entries that name task t
EntriesOf(t) ==
    {k \in DOMAIN remote :
        remote[k].kind = "dict" /\ remote[k].task_kind = "dict" /\ remote[k].task = t}

\* the minutes entry k stands for: the backend's duration minutes when given,
\* else end - start in whole minutes; nothing when start or end is missing or
\* unparsable
MinutesOf(k) ==
    IF remote[k].has_duration THEN remote[k].minutes
    ELSE IF remote[k].start_kind # "ok" \/ remote[k].end_kind # "ok" THEN 0
    ELSE entry_duration(remote[k])

RECURSIVE SumMinutes(_)
SumMinutes(K) ==
    IF K = {} THEN 0
    ELSE LET k == CHOOSE x \in K : TRUE IN MinutesOf(k) + SumMinutes(K \ {k})

\* the entries of task t that have start and end or a duration, and an id
SummedIds(t) ==
    {remote[k].id : k \in {x \in EntriesOf(t) :
        /\ remote[x].has_id
        /\ remote[x].has_duration
             \/ (remote[x].start_kind = "ok" /\ remote[x].end_kind = "ok")}}

\* C17: _consolidate_by_task returns exactly one entry for each task id whose
\* summed duration is positive and none for any other; the entry's
\* duration_minutes is the sum of its slots' minutes and its
\* project_time_ids are the ids of the slots summed.
C17_OneEntryPerTaskWithSum ==
    (op = "consolidate" /\ pc = "returned") =>
        /\ \A t \in Tasks :
              Cardinality({k \in DOMAIN result : result[k].task_id = t})
                  = IF SumMinutes(EntriesOf(t)) > 0 THEN 1 ELSE 0
        /\ \A k \in DOMAIN result :
              /\ result[k].task_id \in Tasks
              /\ result[k].duration_minutes = SumMinutes(EntriesOf(result[k].task_id))
              /\ RangeOf(result[k].project_time_ids) = SummedIds(result[k].task_id)
              /\ Len(result[k].project_time_ids)
                     = Cardinality(SummedIds(result[k].task_id))

\* a task of three slots: one with the backend's duration, one of 90 seconds
\* and one without an end that can be read
C17_Witness ==
    /\ op = "consolidate" /\ pc = "returned"
    /\ Len(remote) = 3 /\ Len(result) = 1
    /\ \A k \in 1..3 : k \in EntriesOf(result[1].task_id)
    /\ remote[1].has_duration /\ remote[1].minutes = 2
    /\ ~remote[2].has_duration /\ remote[2].end - remote[2].start = Minute + Minute \div 2
    /\ remote[3].end_kind = "bad"
    /\ result[1].duration_minutes = 3
    /\ result[1].project_time_ids = <<1, 2>>

\* ------------------------------------------------------------- C18
\* C18 as stated: whatever malformed entries the list holds (null, not a
\* record, without a task, with a null task, without start or end that can be
\* read), _consolidate_by_task returns normally.
C18_NeverFailsOnMalformedData ==
    op = "consolidate" => (pc = "returned" /\ err = "none")

\* ------------------------------------------------------------- C19
\* the whole minutes of a working time that has an end
WindowMinutes == (wt.end - wt.start) \div Minute

\* C19: the summary has net_duration = window minutes - break minutes (for a
\* working time with an end), total_duration = the sum of the aggregated
\* durations, remaining_duration = net - total, is_fully_allocated exactly
\* when |remaining| <= 0.5, is_over_allocated exactly when total > net + 0.5,
\* and never both flags.  (All durations in half minutes.)
C19_SummaryArithmetic ==
    (op = "summary" /\ pc = "returned") =>
        /\ ~wt.ongoing => result.net_duration = 2 * WindowMinutes - wt.break_halves
        /\ result.total_duration = 2 * sum_duration_minutes(result.ui_project_times)
        /\ result.remaining_duration = result.net_duration - result.total_duration
        /\ result.is_fully_allocated <=>
              (result.remaining_duration \in {0 - 1, 0, 1})
        /\ result.is_over_allocated <=>
              (result.total_duration > result.net_duration + 1)
        /\ ~(result.is_fully_allocated /\ result.is_over_allocated)

\* a summary with half a minute left over, fully allocated
C19_Witness ==
    /\ op = "summary" /\ pc = "returned"
    /\ ~wt.ongoing
    /\ result.total_duration > 0
    /\ result.remaining_duration = 0 - 1
    /\ result.is_fully_allocated

\* ------------------------------------------------------------- C20
\* C20 as stated: for an ongoing working time whose duration gives m minutes
\* the summary's net_duration is m - break, whatever the clock shows; the
\* clock gives the end of the window only when there is no such duration.
C20_OngoingUsesDurationHint ==
    (op = "summary" /\ pc = "returned" /\ wt.ongoing) =>
        result.net_duration
            = IF wt.has_hint THEN 2 * wt.hint_minutes - wt.break_halves
              ELSE 2 * ((result.now - wt.start) \div Minute) - wt.break_halves

\* ------------------------------------------------------------- C21
\* C21 as stated: for an ongoing working time (end null) whose duration gives
\* m minutes _calculate_time_slots returns without raising, and the slots are
\* those of a working time from start to start + m minutes.
C21_OngoingPlannedFromHint ==
    (op = "plan" /\ wt.ongoing /\ wt.has_hint) =>
        /\ pc = "planned"
        /\ err = "none"
        /\ slots = LayOut(sorted_tasks(desired), wt.start,
                          wt.start + wt.hint_minutes * Minute)

\* ------------------------------------------------------------- C22
\* every entry of the list is a record with a start that parses
ValidPeriods(work_times) ==
    \A k \in DOMAIN work_times :
        work_times[k].kind = "dict" /\ work_times[k].start_kind = "ok"

\* the entry of the list that the k-th returned entry was
GivenAs(k) == arg[result[k].id]

\* C22 as stated: for a list of working times sanitize_work_times returns as
\* many entries, in ascending order of the instant they start at; an entry
\* whose successor starts before its end has its end set to that start and is
\* otherwise, like every other entry, returned as given; where start and end
\* parse no returned entry ends after its successor starts; no backend call
\* is made.
C22_SortedAndTruncated ==
    (op = "sanitize_work_times" /\ ValidPeriods(arg)) =>
        /\ pc = "returned"
        /\ calls = <<>>
        /\ Len(result) = Len(arg)
        /\ \A i, j \in DOMAIN result : result[i].id = result[j].id => i = j
        /\ \A k \in 1..(Len(result) - 1) :
              Instant(result[k].start) <= Instant(result[k + 1].start)
        /\ \A k \in DOMAIN result :
              IF /\ k < Len(result)
                 /\ GivenAs(k).end_kind = "ok"
                 /\ Instant(GivenAs(k + 1).start) < Instant(GivenAs(k).end)
              THEN result[k] = [GivenAs(k) EXCEPT !.end = GivenAs(k + 1).start]
              ELSE result[k] = GivenAs(k)
        /\ \A k \in 1..(Len(result) - 1) :
              result[k].end_kind = "ok" =>
                  Instant(result[k].end) <= Instant(result[k + 1].start)

\* ------------------------------------------------------------- C23
\* the entries that are records with a start
StructurallyValid ==
    {k \in DOMAIN arg :
        arg[k].kind = "dict" /\ arg[k].start_kind \notin {"missing", "null"}}

\* C23 as stated: whatever entries the list holds, sanitize_work_times
\* returns without raising, and what it returns are the entries that are
\* records with a start: the entries that are null or numbers and those
\* without a start are dropped.
C23_InvalidEntriesDropped ==
    op = "sanitize_work_times" =>
        /\ pc = "returned"
        /\ err = "none"
        /\ Len(result) = Cardinality(StructurallyValid)
        /\ {result[k].id : k \in DOMAIN result} = StructurallyValid

\* ------------------------------------------------------------- C24
\* the calls issued for the project time id
CallsFor(id) == {k \in DOMAIN calls : calls[k].call.id = id}

\* C24: when sanitize_project_times has returned, every call it issued is an
\* update of a fetched project time; a fetched project time that starts
\* before the working time got exactly one update, to the start of the
\* working time and its own end; one that starts after its end got exactly
\* one update, to its own start and that start + 15 minutes; any other got
\* no call, is returned as fetched and is in the store as it was; a project
\* time that ends after the working time keeps its end.
C24_ClampAndRepair ==
    (op = "sanitize_project_times" /\ pc = "returned" /\ fetched) =>
        /\ \A k \in DOMAIN calls :
              /\ calls[k].call.op = "update"
              /\ \E j \in DOMAIN FetchedByRun : FetchedByRun[j].id = calls[k].call.id
        /\ \A j \in DOMAIN FetchedByRun :
              LET pt == FetchedByRun[j]
              IN  /\ IF pt.start < wt.start
                     THEN /\ Cardinality(CallsFor(pt.id)) = 1
                          /\ \A k \in CallsFor(pt.id) :
                                /\ calls[k].call.start = wt.start
                                /\ calls[k].call.end = pt.end
                     ELSE IF pt.start > pt.end
                     THEN /\ Cardinality(CallsFor(pt.id)) = 1
                          /\ \A k \in CallsFor(pt.id) :
                                /\ calls[k].call.start = pt.start
                                /\ calls[k].call.end = pt.start + 15 * Minute
                     ELSE /\ CallsFor(pt.id) = {}
                          /\ \E i \in DOMAIN result : result[i] = pt
                          /\ \E i \in DOMAIN remote : remote[i] = pt
                  /\ pt.end > wt.end =>
                        \E i \in DOMAIN remote :
                            remote[i].id = pt.id /\ remote[i].end = pt.end

\* a project time across the start and the end of the working time moved to
\* its start with its end kept, and one with its end before its start given
\* 15 minutes
C24_Witness ==
    /\ op = "sanitize_project_times" /\ pc = "returned" /\ fetched
    /\ Len(calls) = 2 /\ calls[1].ok /\ calls[2].ok
    /\ \E i, j \in DOMAIN runStart :
          /\ runStart[i].start < wt.start /\ runStart[i].end > wt.end
          /\ remote[i].start = wt.start /\ remote[i].end = runStart[i].end
          /\ runStart[j].start > runStart[j].end
          /\ remote[j].start = runStart[j].start
          /\ remote[j].end = runStart[j].start + 15 * Minute

\* ------------------------------------------------------------- C25
\* the project times the run's fetch returned
Snapshot == IF fetched THEN FetchOk(runStart, wt) ELSE <<>>

SnapshotIndex(id) == CHOOSE j \in DOMAIN Snapshot : Snapshot[j].id = id

\* 1 for the delete of a duplicate, 2 for any other delete, 3 for a create
\* or an update
Phase(c) ==
    IF c.op = "delete"
    THEN IF \E j \in DOMAIN Snapshot :
               /\ Snapshot[j].id = c.id
               /\ Snapshot[j].task # NoTask
               /\ Later(Snapshot, j)
         THEN 1 ELSE 2
    ELSE 3

\* the task a create or update call is for
TaskOfCall(c) ==
    IF c.op = "create" THEN c.task ELSE Snapshot[SnapshotIndex(c.id)].task

PlanPosition(t) == CHOOSE k \in DOMAIN Planned : Planned[k].task_id = t

\* the calls of the run so far are in the order of the phases, the deletes
\* of duplicates in fetch order, the creates and updates in planner order
CallsInOrder ==
    \A i, j \in DOMAIN calls :
        i < j =>
            LET a == calls[i].call
                b == calls[j].call
            IN  /\ Phase(a) <= Phase(b)
                /\ (Phase(a) = 1 /\ Phase(b) = 1) =>
                       SnapshotIndex(a.id) < SnapshotIndex(b.id)
                /\ (Phase(a) = 3 /\ Phase(b) = 3) =>
                       PlanPosition(TaskOfCall(a)) < PlanPosition(TaskOfCall(b))

\* C25: a run fetches once, before its first mutating call: the position of
\* the fetch is entered only by starting a run and no call has been issued
\* there; its calls are then the deletes of the duplicates, the deletes of
\* the project times whose task is not desired, and the creates and updates
\* in planner order, so that no create or update comes before a delete.
C25_FetchThenDeletesThenUpserts ==
    /\ [](op = "apply" =>
            /\ pc = "fetch" => calls = <<>>
            /\ pc # "fetch" => CallsInOrder)
    /\ [][(op' = "apply" /\ pc' = "fetch" /\ pc # "fetch") => run' = run + 1]_vars
    /\ [][(op = "apply" /\ pc \in {"mutate", "done", "raised"} /\ run' = run)
              => (pc' # "fetch" /\ fetched' = fetched)]_vars

\* a run that deleted a duplicate, then the project time of a task that is
\* not desired, and then created one
C25_Witness ==
    /\ Completed
    /\ Len(calls) = 3
    /\ Phase(calls[1].call) = 1
    /\ Phase(calls[2].call) = 2
    /\ calls[3].call.op = "create"

\* ------------------------------------------------------------- C26
CreatesOf(t) == {k \in DOMAIN calls : calls[k].call.op = "create" /\ calls[k].call.task = t}

\* the calls the run owes the project time at position j of the period: a
\* delete for a duplicate and for the first project time of a task that is
\* not planned, an update for the first project time of a planned task that
\* is not within a second of its slot, none otherwise
OwedCalls(j) ==
    LET pt == FetchedByRun[j]
    IN  IF pt.task = NoTask THEN {}
        ELSE IF Later(FetchedByRun, j) \/ pt.task \notin DesiredTasks(Planned)
        THEN {"delete"}
        ELSE IF Within(pt, PlannedFor(pt.task)) THEN {}
        ELSE {"update"}

\* C26 as stated: when a run has returned, the project times of the period
\* got exactly the calls owed: none for the first project time of a planned
\* task that is within a second of its slot, one delete per duplicate and per
\* task that is not planned, one update per planned task whose project time
\* differs; each planned task got one create when it had no project time and
\* none otherwise; so no project time got two calls and there are at most as
\* many calls as project times in the period plus planned tasks.
C26_MinimalCalls ==
    (op = "apply" /\ pc = "done") =>
        /\ \A j \in DOMAIN FetchedByRun :
              /\ {calls[k].call.op : k \in CallsFor(FetchedByRun[j].id)} = OwedCalls(j)
              /\ Cardinality(CallsFor(FetchedByRun[j].id)) <= 1
        /\ \A i \in DOMAIN Planned :
              Cardinality(CreatesOf(Planned[i].task_id))
                  = IF OfTask(FetchedByRun, Planned[i].task_id) = {} THEN 1 ELSE 0
        /\ Len(calls) <= Len(FetchedByRun) + Cardinality(DesiredTasks(Planned))

\* ------------------------------------------------------------- C27
\* the calls of the run so far are those the fetched list and the desired
\* list give: the deletes of the duplicates, the deletes of tasks_to_delete
\* in some order, the creates and updates; all of them when the run is done
CallsFollowSnapshot ==
    LET dq == DuplicateDeletes(Snapshot)
        ds == tasks_to_delete(Snapshot, Planned)
        uq == Upserts(Snapshot, desired_by_task(Planned))
        n1 == Len(dq)
        n2 == n1 + Cardinality(ds)
    IN  /\ Len(calls) <= n2 + Len(uq)
        /\ pc = "done" => Len(calls) = n2 + Len(uq)
        /\ \A k \in DOMAIN calls :
              IF k <= n1 THEN calls[k].call = DeleteCall(dq[k])
              ELSE IF k <= n2
              THEN /\ calls[k].call.op = "delete"
                   /\ calls[k].call.id \in ds
                   /\ \A j \in (n1 + 1)..(k - 1) : calls[j].call.id # calls[k].call.id
              ELSE calls[k].call = uq[k - n2]

\* C27 as stated: whatever another actor does to the store after the fetch,
\* the calls of a run are those its fetched list and the desired list give;
\* and as long as no other actor has touched the store, every run that has
\* returned leaves at most one project time per desired task in the period.
C27_SnapshotOnlyAndSerialSafe ==
    /\ (op = "apply" /\ pc # "fetch") => CallsFollowSnapshot
    /\ (op = "apply" /\ pc = "done" /\ other = 0) =>
          \A t \in DesiredTasks(Planned) : Cardinality(OfTask(PeriodSlots, t)) <= 1

\* ------------------------------------------------------------- C28
\* the project times fetched under the boundaries before the edit
UnderOldBoundaries == FetchOk(runStart, arg)

\* C28 as stated: when a run with a source working time other than the
\* working time has returned, no project time was created for a desired task
\* that had one under the old boundaries, and each such task has exactly one
\* project time in the new window, of its full desired duration and starting
\* inside the new window.
C28_BoundaryChangeKeepsTaskTime ==
    (op = "boundary" /\ pc = "done") =>
        \A i \in DOMAIN Planned :
            LET t == Planned[i].task_id
            IN  OfTask(UnderOldBoundaries, t) # {} =>
                  /\ CreatesOf(t) = {}
                  /\ Cardinality(OfTask(PeriodSlots, t)) = 1
                  /\ \A k \in OfTask(PeriodSlots, t) :
                        /\ PeriodSlots[k].end - PeriodSlots[k].start
                               = Planned[i].duration_minutes * Minute
                        /\ PeriodSlots[k].start >= wt.start
                        /\ PeriodSlots[k].start < wt.end

\* ------------------------------------------------------------- C29
\* the project time starts inside the window [start, end) of the period
StartsInside(pt) == pt.start >= wt.start /\ pt.start < wt.end

\* the project times of the store that start inside the period
StartingInside(st) == SelectSeq(st, StartsInside)

\* C29 as stated: every update and delete call of a run is for a project
\* time that starts inside the period; a project time that starts before the
\* period is in the store as it was, whatever the run did; and the duration
\* the period shows for a task is that of its project times starting inside.
C29_OnlySlotsStartingInside ==
    op = "apply" =>
        /\ \A k \in DOMAIN calls :
              calls[k].call.op \in {"update", "delete"} =>
                  \E j \in DOMAIN runStart :
                      /\ runStart[j].id = calls[k].call.id
                      /\ StartsInside(runStart[j])
        /\ \A j \in DOMAIN runStart :
              runStart[j].start < wt.start =>
                  \E k \in DOMAIN remote : remote[k] = runStart[j]
        /\ \A t \in Tasks :
              Aggregated(runStart, t)
                  = total_duration(RawOf(StartingInside(runStart)), t)

\* ------------------------------------------------------------- C30
\* no two project times of the list share more than an instant
NonOverlapping(pts) ==
    \A i, j \in DOMAIN pts :
        i # j => ~(pts[i].start < pts[j].end /\ pts[j].start < pts[i].end)

\* the planned durations together are no longer than the window
DesiredFits == sum_duration_minutes(Planned) * Minute <= wt.end - wt.start

\* C30 as stated: in a run that started with the project times of the period
\* pairwise non-overlapping and with a desired list that fits the window,
\* the project times of the period are pairwise non-overlapping after every
\* call.
C30_NoTransientOverlap ==
    (op = "apply" /\ NonOverlapping(FetchOk(runStart, wt)) /\ DesiredFits) =>
        NonOverlapping(PeriodSlots)

\* ------------------------------------------------------------- C31
\* the entries of the desired list the planner lays out
PlannableEntries(t) ==
    {k \in DOMAIN desired : desired[k].task_id = t /\ Plannable(desired[k])}

SlotsFor(t) == {k \in DOMAIN Planned : Planned[k].task_id = t}

\* the planner's slots are one per plannable entry, and they follow one
\* another from the start of the working time with no room left for the
\* entries filtered out
PlannedOnlyPlannable ==
    /\ \A t \in Tasks : Cardinality(SlotsFor(t)) = Cardinality(PlannableEntries(t))
    /\ \A k \in DOMAIN Planned :
          Planned[k].start =
              Min(IF k = 1 THEN wt.start ELSE Planned[k - 1].end, wt.end - Minute)

\* the project times of task t the period held when the run started are gone
RemoteSlotsDeleted(t) ==
    \A pt \in RangeOf(FetchOk(runStart, wt)) :
        pt.task = t => \A k \in DOMAIN remote : remote[k].id # pt.id

\* C31: _calculate_time_slots gives one slot to each entry that is not
\* deleted and has a duration above 0 and none to the others, which leave no
\* gap in the layout; and when a run of apply_differential_updates has
\* returned, the project times of a task marked deleted in the desired list
\* are deleted.
C31_FilteredAndDeleted ==
    /\ PlannedOnlyPlannable
    /\ (op = "apply" /\ pc = "done") =>
          \A k \in DOMAIN desired :
              desired[k].deleted => RemoteSlotsDeleted(desired[k].task_id)

\* ------------------------------------------------------------- C32
\* the end of the window: the end of the working time, for an ongoing one
\* its start plus the minutes of its duration, or the current time
WindowEnd ==
    IF ~wt.ongoing THEN wt.end
    ELSE IF wt.has_hint THEN wt.start + wt.hint_minutes * Minute
    ELSE arg.now

Returned(pt) == \E k \in DOMAIN result : result[k] = pt

FetchReturned == op = "fetch_in_work_time" /\ pc = "returned" /\ fetched

\* the returned list is in the order of the listing, holds no project time
\* whose start or end does not parse, and holds a project time that parses
\* and has start < end exactly when it begins before the end of the window
\* and ends after the start of the window
ReturnedAreOverlapping ==
    /\ result = SelectSeq(remote, Returned)
    /\ \A k \in DOMAIN remote :
          LET pt == remote[k]
          IN  /\ ~parses(pt) => ~Returned(pt)
              /\ (parses(pt) /\ pt.start < pt.end) =>
                    (Returned(pt) <=> (pt.start < WindowEnd /\ pt.end > wt.start))

\* C32: _get_project_times_in_work_time returns, in the order listed, the
\* project times whose start and end parse and which overlap the window
\* (start < window end and end > window start, for start < end), the window
\* of an ongoing working time ending at start + duration or at the current
\* time.
C32_ReturnsOverlappingInOrder == FetchReturned => ReturnedAreOverlapping

\* ------------------------------------------------------------- C33
\* the ids of the project times the backend holds
RemoteIds == {remote[k].id : k \in DOMAIN remote}

\* the duplicates a fetch of the period finds at the time now
DuplicatesAt(now) == RangeOf(DuplicateDeletes(FetchOk(runStart, FetchWindow(now))))

\* C33: when the planning raises because the working time has no end to
\* read, the run of apply_differential_updates raises with no delete, create
\* or update issued and the store as it was; the duplicates a fetch of the
\* period finds are still there.
C33_PlanningRaisesBeforeAnyCall ==
    (op = "apply" /\ end_str_is_null(wt) /\ pc # "fetch") =>
        /\ pc = "raised"
        /\ err = "AttributeError"
        /\ calls = <<>>
        /\ remote = runStart
        /\ remote = remote0
        /\ \A now \in Clock : DuplicatesAt(now) \subseteq RemoteIds

\* a run for an ongoing working time has raised, the period holding two
\* project times of one task
C33_Witness ==
    /\ op = "apply"
    /\ end_str_is_null(wt)
    /\ pc = "raised"
    /\ fetched
    /\ \E now \in Clock : DuplicatesAt(now) # {}

\* ------------------------------------------------------------- C34
\* C34: every slot _calculate_time_slots returns starts at or after the
\* start of the working time, for every working time with start <= end,
\* those shorter than a minute and of no length included.
C34_StartsAtOrAfterWindowStart ==
    (op = "plan" /\ pc = "planned" /\ wt.start <= wt.end) =>
        \A k \in DOMAIN slots : slots[k].start >= wt.start

\* ------------------------------------------------------------- C35
\* an update the backend refused was issued for the project time id
UpdateFailed(id) == \E k \in CallsFor(id) : ~calls[k].ok

ReturnedIds == {result[k].id : k \in DOMAIN result}

\* C35: when sanitize_project_times has returned, it has raised nothing;
\* every fetched project time that starts before the working time or after
\* its own end got its update, also behind one whose update failed, and is
\* corrected in the store when its update went through; a project time
\* whose update failed is not in the returned list and is in the store as it
\* was; every other fetched project time is in the returned list.
C35_UpdateErrorSkipsOnlyThatSlot ==
    (op = "sanitize_project_times" /\ pc = "returned" /\ fetched) =>
        /\ err = "none"
        /\ \A j \in DOMAIN FetchedByRun :
              LET pt == FetchedByRun[j]
              IN  /\ (pt.start < wt.start \/ pt.start > pt.end) =>
                        /\ CallsFor(pt.id) # {}
                        /\ ~UpdateFailed(pt.id) =>
                              \E i \in DOMAIN remote :
                                  /\ remote[i].id = pt.id
                                  /\ remote[i].start >= wt.start
                                  /\ remote[i].start <= remote[i].end
                  /\ UpdateFailed(pt.id) =>
                        /\ pt.id \notin ReturnedIds
                        /\ \E i \in DOMAIN remote : remote[i] = pt
                  /\ ~UpdateFailed(pt.id) => pt.id \in ReturnedIds

\* the update of the first project time failed, the second was corrected
\* after it and is the only one returned
C35_Witness ==
    /\ op = "sanitize_project_times" /\ pc = "returned" /\ fetched
    /\ err = "none"
    /\ Len(calls) = 2 /\ ~calls[1].ok /\ calls[2].ok
    /\ ReturnedIds = {calls[2].call.id}
    /\ \E i \in DOMAIN remote :
          /\ remote[i].id = calls[2].call.id
          /\ remote[i] # runStart[i]
          /\ remote[i].start >= wt.start

\* ------------------------------------------------------------- C36
\* every entry of the list is a record whose start and end parse, the start
\* not after the end
WellOrderedPeriods(work_times) ==
    \A k \in DOMAIN work_times :
        /\ work_times[k].kind = "dict"
        /\ work_times[k].start_kind = "ok"
        /\ work_times[k].end_kind = "ok"
        /\ Instant(work_times[k].start) <= Instant(work_times[k].end)

\* C36: for a list of working times that each have start <= end, written
\* with whatever UTC offsets, sanitize_work_times returns no working time
\* whose end lies before its start.
C36_NoInvertedPeriod ==
    (op = "sanitize_work_times" /\ pc = "returned" /\ WellOrderedPeriods(arg)) =>
        \A k \in DOMAIN result :
            Instant(result[k].start) <= Instant(result[k].end)

\* ------------------------------------------------------------- C37
\* the lookups of thread c's current get_tasks call
LookupsOf(c) == callers[c].log

\* in one call no parent is fetched again once it was fetched, a parent's
\* first lookup is answered by the backend and not from the cache, and the
\* lookup of a parent that follows a failed fetch of it goes to the backend
LookupsFollowCache(c) ==
    LET log == LookupsOf(c)
    IN  \A j \in DOMAIN log :
           /\ log[j].outcome = "hit" =>
                 \E i \in 1..(j - 1) : log[i].parent = log[j].parent
           /\ \A i \in 1..(j - 1) :
                 log[i].parent = log[j].parent =>
                    /\ log[i].outcome = "fetched" => log[j].outcome = "hit"
                    /\ (/\ log[i].outcome = "failed"
                        /\ \A k \in (i + 1)..(j - 1) : log[k].parent # log[j].parent)
                          => log[j].outcome # "hit"

InCall(cl) == cl.pc \in {"listing", "filter"}

\* the cache is empty when a call begins and when it ends
EmptyAtStartAndEnd ==
    \A c \in Threads :
       /\ (~InCall(callers[c]) /\ InCall(callers'[c])) => parent_task_cache = {}
       /\ (InCall(callers[c]) /\ ~InCall(callers'[c])) => parent_task_cache' = {}

\* C37: during one get_tasks call a parent task is fetched at most once,
\* however many listed tasks share it; the cache is empty when a get_tasks
\* call begins and when it ends, so that a later call fetches the parents
\* again; a failed fetch of a parent is not cached and the next lookup of
\* that parent fetches again.
C37_ParentCachePerCall ==
    /\ [](\A c \in Threads : LookupsFollowCache(c))
    /\ [][EmptyAtStartAndEnd]_vars

\* ------------------------------------------------------------- C38
\* C38: every backend call made while a request is handled carries the
\* token and the user of the session that issued the request, also when
\* requests of different users are handled at the same time.
C38_CallsCarryOwnSession ==
    \A s \in sent : s.token = TokenOf(s.session) /\ s.user = s.session

====
